---- MODULE Spec2Model ----
(***************************************************************************)
(* Verification model of the configuration core of the RFC test suites:    *)
(*   - plugin2889/dataset.py  TPLDIDController (payload-id allocation),     *)
(*                            FrameSizeConfiguration, role-counted test    *)
(*                            types (check_src_dest_port_roles),            *)
(*                            TestSuiteConfiguration2889 (profile binding)  *)
(*   - plugin2544/dataset.py  PluginModel2544 (construction, direction      *)
(*                            resolution, group/peer checks, binding)       *)
(*   - plugin2544/model/m_port_config.py  PortConfiguration                 *)
(*   - plugin2544/model/m_test_type_config.py  rate iteration / rate sweep  *)
(*   - plugin3918/model/port_config.py  PortConfiguration.validate_ip       *)
(***************************************************************************)
EXTENDS Integers, Sequences, FiniteSets, TLC

VARIABLES
    \* ---- TPLDIDController (plugin2889/dataset.py:363-382)
    tid_allocation_scope,   \* the allocation policy, set once
    current_rx_port_tid,    \* defaultdict: destination port -> next id
    current_tid,            \* the configuration-scope counter
    next_tid,               \* the id computed by the last call
    max_tpld_stats,         \* port -> info.capabilities.max_tpld_stats
    alloc_result,           \* outcome of the last alloc_new_tpld_id call
    alloc_history,          \* every call so far: <<[dst, id, outcome]>>
    \* ---- PluginModel2544 / TestSuiteConfiguration2889 under construction
    generation,             \* "2544" (PluginModel2544) or "2889"
    topology,               \* test_configuration.topology_config.topology
    direction,              \* test_configuration.topology_config.direction
    flow_creation_type,     \* ...flow_creation_config.flow_creation_type
    test_types_configuration,
    protocol_segments,      \* profile id -> reference of the template, 0: none
    profile_heap,           \* profile objects by reference: their segments
    ports_configuration,    \* sequence of PortConfiguration
    pc,                     \* the next pass of __init__, "accepted", "rejected"
    error,                  \* the exception that rejected the configuration
    profile_reads,          \* which pass read port.profile, bound or not
    resolve_runs,           \* completed runs of set_ports_rx_tx_type
    mutations,              \* mutations of bound profiles so far
    last_mutated,           \* port index of the last mutation, 0: none
    \* ---- objects validated on their own
    port3918,               \* plugin3918 PortConfiguration: profile, addresses
    rate_iteration_options, \* RateIterationOptions of either generation
    rate_sweep_options,     \* RateSweepOptions / NewRateSweepOptions
    frame_sizes,            \* plugin2889 FrameSizeConfiguration
    test_case,              \* plugin2889 TestCaseBaseConfiguration variant
    \* ---- statistics (plugin2889/dataset.py:571-636)
    stats,                  \* StatisticsData snapshots and their sum
    port_latency,           \* a PortLatency / PortJitter and what it was fed
    \* ---- alloc_new_tpld_id calls in flight on one TPLDIDController
    calls,                  \* thread -> position and id returned
    serialized              \* the caller runs one call at a time

allocVars == <<tid_allocation_scope, current_rx_port_tid, current_tid, next_tid,
               max_tpld_stats, alloc_result, alloc_history>>

cfgVars == <<generation, topology, direction, flow_creation_type,
             test_types_configuration, protocol_segments, profile_heap,
             ports_configuration, pc, error, profile_reads, resolve_runs,
             mutations, last_mutated>>

objVars == <<port3918, rate_iteration_options, rate_sweep_options,
             frame_sizes, test_case>>

statVars == <<stats, port_latency>>

concVars == <<calls, serialized>>

vars == <<allocVars, cfgVars, objVars, statVars, concVars>>

(***************************************************************************)
(* Bounds of the model.                                                    *)
(***************************************************************************)
NumPorts == 2      \* ports of the chassis seen by the allocator
MaxCalls == 3      \* alloc_new_tpld_id calls in one run
MaxCap   == 2      \* largest max_tpld_stats capability drawn
MaxPorts == 2      \* entries of ports_configuration
MaxReruns == 1     \* extra runs of set_ports_rx_tx_type after construction
MaxMutations == 1  \* mutations of bound profiles after construction
MaxSegments == 3   \* header segments of a plugin3918 profile
MaxTens == 5       \* largest raw percentage drawn, in tens
MaxWeights == 3    \* entries of mixed_sizes_weights
MaxRolePorts == 4  \* entries of a role map
MaxStat == 1       \* largest tx_packet of a snapshot drawn
MaxSamples == 3    \* samples fed to one PortLatency
NumThreads == 2    \* threads calling alloc_new_tpld_id

NoPeer == -1     \* None, for a slot or a port that is not set

(***************************************************************************)
(* Payload identifier allocation: TPLDIDController                         *)
(***************************************************************************)
CONFIGURATION_SCOPE == "CONFIGURATION_SCOPE"
RX_PORT_SCOPE       == "RX_PORT_SCOPE"
SOURCE_PORT_ID      == "SOURCE_PORT_ID"
TidAllocationScope  == {CONFIGURATION_SCOPE, RX_PORT_SCOPE, SOURCE_PORT_ID}

\* GenericL23Port handles; a port's hardware index kind.port_id is its number.
L23Ports == 0 .. (NumPorts - 1)
port_id(port) == port

\* dataset.py:372  self.next_tid = self.current_tid
\* (variant: the counter read after the increment)
ConfigScopeNextTid_PostIncrement == current_tid + 1
ConfigScopeNextTid == current_tid

\* dataset.py:375-376  the key of the per-port counter is the destination port
\* (variant: the counter keyed by the source port)
RxPortKey_Source(source_port, destination_port) == source_port
RxPortKey(source_port, destination_port) == destination_port

\* dataset.py:371-378  the id the call computes under each policy
ComputedTid(source_port, destination_port) ==
    CASE tid_allocation_scope = CONFIGURATION_SCOPE -> ConfigScopeNextTid
      [] tid_allocation_scope = RX_PORT_SCOPE ->
             current_rx_port_tid[RxPortKey(source_port, destination_port)]
      [] tid_allocation_scope = SOURCE_PORT_ID -> port_id(source_port)

\* dataset.py:380  the comparison made after the id is computed; the
\* capability read is the SOURCE port's (source_port.info.capabilities)
ExceedsCapability(tid, source_port, destination_port) ==
    tid > max_tpld_stats[source_port]

\* dataset.py:380-382  when the comparison is true the TPLDIDExceed object is
\* constructed and dropped (the statement has no `raise`); the call goes on
\* to `return self.next_tid` in either case.
AllocOutcome(exceeds) == "return"

\* dataset.py:370-382  one serialized call of alloc_new_tpld_id
alloc_new_tpld_id(source_port, destination_port) ==
    LET tid == ComputedTid(source_port, destination_port)
        exceeds == ExceedsCapability(tid, source_port, destination_port)
        out == AllocOutcome(exceeds)
        key == RxPortKey(source_port, destination_port)
    IN  /\ Len(alloc_history) < MaxCalls
        /\ next_tid' = tid
        /\ current_tid' = IF tid_allocation_scope = CONFIGURATION_SCOPE
                          THEN current_tid + 1 ELSE current_tid
        /\ current_rx_port_tid' =
               IF tid_allocation_scope = RX_PORT_SCOPE
               THEN [current_rx_port_tid EXCEPT ![key] = @ + 1]
               ELSE current_rx_port_tid
        /\ alloc_result' = [source_port |-> source_port,
                            destination_port |-> destination_port,
                            exceed_built |-> exceeds,
                            outcome |-> out, id |-> tid]
        /\ alloc_history' = Append(alloc_history,
                                   [dst |-> destination_port, id |-> tid,
                                    outcome |-> out])
        /\ UNCHANGED <<tid_allocation_scope, max_tpld_stats>>
        /\ UNCHANGED <<cfgVars, objVars, statVars, concVars>>

AllocCall ==
    \E source_port \in L23Ports, destination_port \in L23Ports :
        alloc_new_tpld_id(source_port, destination_port)

(***************************************************************************)
(* Enumerations the configuration models import (utils/constants, const)   *)
(***************************************************************************)
PAIRS  == "PAIRS"
BLOCKS == "BLOCKS"
MESH   == "MESH"
TestTopology == {PAIRS, BLOCKS, MESH}
is_pair_topology(t) == t = PAIRS
is_mesh_topology(t) == t = MESH

EAST_TO_WEST == "EAST_TO_WEST"
WEST_TO_EAST == "WEST_TO_EAST"
BIDIRECTION  == "BIDIRECTION"
TrafficDirection == {EAST_TO_WEST, WEST_TO_EAST, BIDIRECTION}

EAST      == "EAST"
WEST      == "WEST"
UNDEFINED == "UNDEFINED"
PortGroup == {EAST, WEST, UNDEFINED}
is_east(g) == g = EAST
is_west(g) == g = WEST

STREAM_BASED   == "STREAM_BASED"
MODIFIER_BASED == "MODIFIER_BASED"
FlowCreationType == {STREAM_BASED, MODIFIER_BASED}
is_stream_based(f) == f = STREAM_BASED

COMMON_RESULT   == "COMMON_RESULT"
PER_SOURCE_PORT == "PER_SOURCE_PORT"

(***************************************************************************)
(* Protocol segment profiles                                               *)
(***************************************************************************)
ETHERNET == "ETHERNET"
IP       == "IP"
IPV6     == "IPV6"
IsIpSegment(seg) == seg \in {IP, IPV6}

\* protocol_version: the IP family of the first IP-bearing segment of the
\* profile, ETHERNET when it has none
protocol_version(segments) ==
    IF \A i \in 1 .. Len(segments) : ~IsIpSegment(segments[i])
    THEN ETHERNET
    ELSE LET first == CHOOSE i \in 1 .. Len(segments) :
                          /\ IsIpSegment(segments[i])
                          /\ \A j \in 1 .. (i - 1) : ~IsIpSegment(segments[j])
         IN  IF segments[first] = IPV6 THEN "IPV6" ELSE "IPV4"
is_l3(version) == version \in {"IPV4", "IPV6"}

\* The ids of profiles a port may name, and the order the registered ones
\* are held in protocol_segments
ProfileIds == {"a", "b"}
ProfileOrder == <<"a", "b">>
TemplateRef(id) == CHOOSE r \in 1 .. Len(ProfileOrder) : ProfileOrder[r] = id

\* reference 0 is the profile a PortConfiguration is born with:
\* ProtocolSegmentProfileConfig() with no segment
DefaultProfileRef == 0
ProfileSegments(ref) ==
    IF ref = DefaultProfileRef THEN <<>> ELSE profile_heap[ref]

Registered(id) == protocol_segments[id] # 0

(***************************************************************************)
(* PortConfiguration (plugin2544/model/m_port_config.py)                   *)
(***************************************************************************)
\* m_port_config.py:107-109
is_loop(port) == port.port_slot = port.peer_slot
\* m_port_config.py:111-112
is_pair(port, peer_config) == peer_config.peer_slot = port.port_slot

Ports == 1 .. Len(ports_configuration)

\* the first element of a sequence of exceptions that is one
NoError == [name |-> "None", count |-> 0, group |-> ""]
Exc(name) == [name |-> name, count |-> 0, group |-> ""]
FirstError(errs) ==
    IF \A i \in 1 .. Len(errs) : errs[i] = NoError
    THEN NoError
    ELSE errs[CHOOSE i \in 1 .. Len(errs) :
                  /\ errs[i] # NoError
                  /\ \A j \in 1 .. (i - 1) : errs[j] = NoError]

(***************************************************************************)
(* PluginModel2544.__init__ : the passes in the order they run.            *)
(* super().__init__() validates the fields in declaration order and runs   *)
(* the field validators of a field in definition order; the three calls of *)
(* dataset.py:43-46 follow.                                                *)
(***************************************************************************)
Passes2544 ==
    << "check_ip_properties", "check_port_count",
       "check_modifier_mode_and_segments", "check_port_group",
       "check_test_type_enable", "check_result_scope",
       "set_ports_rx_tx_type", "check_port_groups_and_peers", "set_profile" >>

PassIndex(name) == CHOOSE i \in 1 .. Len(Passes2544) : Passes2544[i] = name
After(name) ==
    IF PassIndex(name) = Len(Passes2544) THEN "accepted"
    ELSE Passes2544[PassIndex(name) + 1]

\* a pass ends: with an exception the construction is abandoned
EndPass(name, exc) ==
    IF exc = NoError
    THEN pc' = After(name) /\ error' = error
    ELSE pc' = "rejected" /\ error' = exc

AtPass(name) == generation = "2544" /\ pc = name

\* dataset.py:53-59  what the validator finds on one port
IpPropertiesError(port) ==
    IF ~Registered(port.protocol_segment_profile_id)
    THEN Exc("PSPMissing")
    ELSE IF /\ is_l3(protocol_version(ProfileSegments(
                    protocol_segments[port.protocol_segment_profile_id])))
            /\ port.ip_empty
         THEN Exc("IPAddressMissing")
         ELSE NoError

\* dataset.py:49-60
check_ip_properties ==
    /\ AtPass("check_ip_properties")
    /\ EndPass("check_ip_properties",
               FirstError([i \in Ports |->
                               IpPropertiesError(ports_configuration[i])]))
    /\ UNCHANGED <<allocVars, objVars, statVars, concVars>>
    /\ UNCHANGED <<generation, topology, direction, flow_creation_type,
                   test_types_configuration, protocol_segments, profile_heap,
                   ports_configuration, profile_reads, resolve_runs,
                   mutations, last_mutated>>

\* dataset.py:65-71
\* (variant: two ports required under every topology)
RequirePorts_AlwaysTwo(t) == 2
RequirePorts(t) == IF is_pair_topology(t) THEN 1 ELSE 2

\* dataset.py:63-74
check_port_count ==
    /\ AtPass("check_port_count")
    /\ EndPass("check_port_count",
               IF Len(ports_configuration) < RequirePorts(topology)
               THEN [name |-> "PortConfigNotEnough",
                     count |-> RequirePorts(topology), group |-> ""]
               ELSE NoError)
    /\ UNCHANGED <<allocVars, objVars, statVars, concVars>>
    /\ UNCHANGED <<generation, topology, direction, flow_creation_type,
                   test_types_configuration, protocol_segments, profile_heap,
                   ports_configuration, profile_reads, resolve_runs,
                   mutations, last_mutated>>

\* dataset.py:100-103  the condition tested on one port; `and` evaluates
\* port_config.profile only when the flow creation is not stream based
ModifierL3Error(port) ==
    IF /\ ~is_stream_based(flow_creation_type)
       /\ is_l3(protocol_version(ProfileSegments(port.profile)))
    THEN Exc("ModifierBasedNotSupportL3")
    ELSE NoError

\* the ports whose profile the loop of dataset.py:99-103 reads: every port
\* up to the first one that raises
ModifierPassReads ==
    IF is_stream_based(flow_creation_type) THEN {}
    ELSE {i \in Ports :
            \A j \in 1 .. (i - 1) :
                ModifierL3Error(ports_configuration[j]) = NoError}

\* dataset.py:93-104
check_modifier_mode_and_segments ==
    /\ AtPass("check_modifier_mode_and_segments")
    /\ EndPass("check_modifier_mode_and_segments",
               FirstError([i \in Ports |->
                               ModifierL3Error(ports_configuration[i])]))
    /\ profile_reads' = profile_reads \cup
           {[pass |-> "check_modifier_mode_and_segments",
             bound |-> ports_configuration[i].profile # DefaultProfileRef]
            : i \in ModifierPassReads}
    /\ UNCHANGED <<allocVars, objVars, statVars, concVars>>
    /\ UNCHANGED <<generation, topology, direction, flow_creation_type,
                   test_types_configuration, protocol_segments, profile_heap,
                   ports_configuration, resolve_runs, mutations, last_mutated>>

\* dataset.py:109  info.data holds the fields validated before the one
\* being validated, so "ports_configuration" is never among its keys
InfoDataHasPortsConfiguration == FALSE

\* dataset.py:107-118
check_port_group ==
    /\ AtPass("check_port_group")
    /\ EndPass("check_port_group",
               IF /\ InfoDataHasPortsConfiguration
                  /\ ~is_mesh_topology(topology)
                  /\ \E i \in Ports :
                         ports_configuration[i].port_group = UNDEFINED
               THEN Exc("PortGroupNeeded")
               ELSE NoError)
    /\ UNCHANGED <<allocVars, objVars, statVars, concVars>>
    /\ UNCHANGED <<generation, topology, direction, flow_creation_type,
                   test_types_configuration, protocol_segments, profile_heap,
                   ports_configuration, profile_reads, resolve_runs,
                   mutations, last_mutated>>

\* dataset.py:120-133
check_test_type_enable ==
    /\ AtPass("check_test_type_enable")
    /\ EndPass("check_test_type_enable",
               IF ~(\/ test_types_configuration.throughput_enabled
                    \/ test_types_configuration.other_enabled)
               THEN Exc("TestTypesError")
               ELSE NoError)
    /\ UNCHANGED <<allocVars, objVars, statVars, concVars>>
    /\ UNCHANGED <<generation, topology, direction, flow_creation_type,
                   test_types_configuration, protocol_segments, profile_heap,
                   ports_configuration, profile_reads, resolve_runs,
                   mutations, last_mutated>>

\* dataset.py:141-148  what the validator finds
\* (variant: the flow creation type tested the other way round)
ResultScopeError_StreamBased(test_types, flow) ==
    IF /\ test_types.throughput_enabled
       /\ test_types.result_scope = PER_SOURCE_PORT
       /\ is_stream_based(flow)
    THEN Exc("ModifierBasedNotSupportPerPortResult")
    ELSE NoError
ResultScopeError(test_types, flow) ==
    IF /\ test_types.throughput_enabled
       /\ test_types.result_scope = PER_SOURCE_PORT
       /\ ~is_stream_based(flow)
    THEN Exc("ModifierBasedNotSupportPerPortResult")
    ELSE NoError

\* dataset.py:136-149
check_result_scope ==
    /\ AtPass("check_result_scope")
    /\ EndPass("check_result_scope",
               ResultScopeError(test_types_configuration,
                                flow_creation_type))
    /\ UNCHANGED <<allocVars, objVars, statVars, concVars>>
    /\ UNCHANGED <<generation, topology, direction, flow_creation_type,
                   test_types_configuration, protocol_segments, profile_heap,
                   ports_configuration, profile_reads, resolve_runs,
                   mutations, last_mutated>>

\* dataset.py:22-33  the flags of one port after the pass has visited it
\* (variants: the two flags exchanged; a flag inverted instead of cleared)
DirectionFlags_Swapped(dir, port) ==
    IF is_loop(port) THEN port
    ELSE IF dir = EAST_TO_WEST
         THEN IF is_east(port.port_group) THEN [port EXCEPT !.is_tx = FALSE]
              ELSE IF is_west(port.port_group)
                   THEN [port EXCEPT !.is_rx = FALSE]
                   ELSE port
         ELSE IF dir = WEST_TO_EAST
              THEN IF is_east(port.port_group)
                   THEN [port EXCEPT !.is_rx = FALSE]
                   ELSE IF is_west(port.port_group)
                        THEN [port EXCEPT !.is_tx = FALSE]
                        ELSE port
              ELSE port
DirectionFlags_Toggle(dir, port) ==
    IF is_loop(port) THEN port
    ELSE IF dir = EAST_TO_WEST
         THEN IF is_east(port.port_group)
              THEN [port EXCEPT !.is_rx = ~port.is_rx]
              ELSE IF is_west(port.port_group)
                   THEN [port EXCEPT !.is_tx = ~port.is_tx]
                   ELSE port
         ELSE IF dir = WEST_TO_EAST
              THEN IF is_east(port.port_group)
                   THEN [port EXCEPT !.is_tx = ~port.is_tx]
                   ELSE IF is_west(port.port_group)
                        THEN [port EXCEPT !.is_rx = ~port.is_rx]
                        ELSE port
              ELSE port
DirectionFlags(dir, port) ==
    IF is_loop(port) THEN port
    ELSE IF dir = EAST_TO_WEST
         THEN IF is_east(port.port_group) THEN [port EXCEPT !.is_rx = FALSE]
              ELSE IF is_west(port.port_group)
                   THEN [port EXCEPT !.is_tx = FALSE]
                   ELSE port
         ELSE IF dir = WEST_TO_EAST
              THEN IF is_east(port.port_group)
                   THEN [port EXCEPT !.is_tx = FALSE]
                   ELSE IF is_west(port.port_group)
                        THEN [port EXCEPT !.is_rx = FALSE]
                        ELSE port
              ELSE port

\* dataset.py:19-33  the method's effect on the configuration
set_ports_rx_tx_type ==
    /\ ports_configuration' =
           [i \in Ports |-> DirectionFlags(direction, ports_configuration[i])]
    /\ resolve_runs' = resolve_runs + 1

\* dataset.py:43  the call made by __init__
SetPortsRxTxTypePass ==
    /\ AtPass("set_ports_rx_tx_type")
    /\ set_ports_rx_tx_type
    /\ EndPass("set_ports_rx_tx_type", NoError)
    /\ UNCHANGED <<allocVars, objVars, statVars, concVars>>
    /\ UNCHANGED <<generation, topology, direction, flow_creation_type,
                   test_types_configuration, protocol_segments, profile_heap,
                   profile_reads, mutations, last_mutated>>

\* dataset.py:151-168  <<ports_in_east, ports_in_west>> after one port
\* (variant: a loop port counted on its own side only)
count_port_group_NoLoop(port, uses_port_peer, ports_in_east, ports_in_west) ==
    IF is_east(port.port_group) THEN <<ports_in_east + 1, ports_in_west>>
    ELSE IF is_west(port.port_group) THEN <<ports_in_east, ports_in_west + 1>>
         ELSE <<ports_in_east, ports_in_west>>
count_port_group(port, uses_port_peer, ports_in_east, ports_in_west) ==
    IF is_east(port.port_group)
    THEN <<ports_in_east + 1,
           IF uses_port_peer /\ is_loop(port)
           THEN ports_in_west + 1 ELSE ports_in_west>>
    ELSE IF is_west(port.port_group)
         THEN <<IF uses_port_peer /\ is_loop(port)
                THEN ports_in_east + 1 ELSE ports_in_east,
                ports_in_west + 1>>
         ELSE <<ports_in_east, ports_in_west>>

\* dataset.py:176  ports_configuration[peer_slot]: a Python list subscript,
\* where a negative index k counts from the end of the list and an index
\* below -len raises IndexError; the position (from 1) in a list of n
ListIndex(k, n) == IF k < 0 THEN n + k + 1 ELSE k + 1

\* dataset.py:170-180  peer_slot indexes the list ports_configuration; only
\* its upper end is compared with the length of the list
check_port_peer(port) ==
    IF port.peer_slot = NoPeer \/ port.peer_slot >= Len(ports_configuration)
    THEN Exc("PortPeerNeeded")
    ELSE IF port.peer_slot < -Len(ports_configuration)
         THEN Exc("IndexError")
         ELSE LET peer_config ==
                      ports_configuration[ListIndex(port.peer_slot,
                                                    Len(ports_configuration))]
              IN  IF \/ ~is_pair(port, peer_config)
                     \/ ~is_pair(peer_config, port)
                  THEN Exc("PortPeerInconsistent")
                  ELSE NoError

\* dataset.py:78-84  the tallies after the first n ports
RECURSIVE GroupTally(_)
GroupTally(n) ==
    IF n = 0 THEN <<0, 0>>
    ELSE IF is_mesh_topology(topology) THEN GroupTally(n - 1)
         ELSE count_port_group(ports_configuration[n],
                               is_pair_topology(topology),
                               GroupTally(n - 1)[1], GroupTally(n - 1)[2])

\* dataset.py:87-90  East is looked at before West
GroupBalanceError(tally) ==
    IF is_mesh_topology(topology) THEN NoError
    ELSE IF tally[1] = 0
         THEN [name |-> "PortGroupError", count |-> 0, group |-> "East"]
         ELSE IF tally[2] = 0
              THEN [name |-> "PortGroupError", count |-> 0, group |-> "West"]
              ELSE NoError

\* dataset.py:76-90  a peer error of any port is raised inside the loop,
\* before the group tallies are looked at
check_port_groups_and_peers ==
    /\ AtPass("check_port_groups_and_peers")
    /\ LET peer_error ==
               IF is_pair_topology(topology)
               THEN FirstError([i \in Ports |->
                                    check_port_peer(ports_configuration[i])])
               ELSE NoError
       IN  EndPass("check_port_groups_and_peers",
                   IF peer_error # NoError THEN peer_error
                   ELSE GroupBalanceError(
                            GroupTally(Len(ports_configuration))))
    /\ UNCHANGED <<allocVars, objVars, statVars, concVars>>
    /\ UNCHANGED <<generation, topology, direction, flow_creation_type,
                   test_types_configuration, protocol_segments, profile_heap,
                   ports_configuration, profile_reads, resolve_runs,
                   mutations, last_mutated>>

(***************************************************************************)
(* Profile binding                                                         *)
(***************************************************************************)
\* dataset.py:39 / plugin2889 dataset.py:855  profile.copy(deep=True): the
\* object the port holds is the fresh copy, not the template
\* (variant: the template itself bound, no copy)
BoundProfileRef_ByReference(template_ref, fresh_ref) == template_ref
BoundProfileRef(template_ref, fresh_ref) == fresh_ref

\* the binding loop over the ports, every profile id being registered: port i
\* gets the copy created at heap reference Len(profile_heap) + i
BindAll ==
    /\ profile_heap' = profile_heap \o
           [i \in Ports |->
               profile_heap[protocol_segments[
                   ports_configuration[i].protocol_segment_profile_id]]]
    /\ ports_configuration' =
           [i \in Ports |->
               [ports_configuration[i] EXCEPT !.profile =
                   BoundProfileRef(
                       protocol_segments[
                           ports_configuration[i].protocol_segment_profile_id],
                       Len(profile_heap) + i)]]

MissingProfilePorts ==
    {i \in Ports :
        ~Registered(ports_configuration[i].protocol_segment_profile_id)}

\* dataset.py:35-39  `[...][0]` on an empty list is an IndexError
set_profile ==
    /\ AtPass("set_profile")
    /\ IF MissingProfilePorts # {}
       THEN /\ EndPass("set_profile", Exc("IndexError"))
            /\ UNCHANGED <<profile_heap, ports_configuration>>
       ELSE /\ EndPass("set_profile", NoError)
            /\ BindAll
    /\ UNCHANGED <<allocVars, objVars, statVars, concVars>>
    /\ UNCHANGED <<generation, topology, direction, flow_creation_type,
                   test_types_configuration, protocol_segments,
                   profile_reads, resolve_runs, mutations, last_mutated>>

\* plugin2889 dataset.py:841-855  TestSuiteConfiguration2889.__init__:
\* check_port_config, check_tests_enabled, then the binding loop, whose
\* dictionary lookup raises KeyError for an id that is not a key
Construct2889 ==
    /\ generation = "2889"
    /\ pc = "construct"
    /\ IF Len(ports_configuration) < 2
       THEN /\ pc' = "rejected"
            /\ error' = [name |-> "PortConfigNotEnough", count |-> 2,
                         group |-> ""]
            /\ UNCHANGED <<profile_heap, ports_configuration>>
       ELSE IF ~(\/ test_types_configuration.throughput_enabled
                 \/ test_types_configuration.other_enabled)
            THEN /\ pc' = "rejected"
                 /\ error' = Exc("TestTypeNotEnough")
                 /\ UNCHANGED <<profile_heap, ports_configuration>>
            ELSE IF MissingProfilePorts # {}
                 THEN /\ pc' = "rejected"
                      /\ error' = Exc("KeyError")
                      /\ UNCHANGED <<profile_heap, ports_configuration>>
                 ELSE /\ pc' = "accepted"
                      /\ error' = error
                      /\ BindAll
    /\ UNCHANGED <<allocVars, objVars, statVars, concVars>>
    /\ UNCHANGED <<generation, topology, direction, flow_creation_type,
                   test_types_configuration, protocol_segments,
                   profile_reads, resolve_runs, mutations, last_mutated>>

(***************************************************************************)
(* Operations on a constructed configuration                               *)
(***************************************************************************)
\* dataset.py:19-33  set_ports_rx_tx_type called again on the model
RerunSetPortsRxTxType ==
    /\ generation = "2544"
    /\ pc = "accepted"
    /\ resolve_runs < 1 + MaxReruns
    /\ set_ports_rx_tx_type
    /\ UNCHANGED <<allocVars, objVars, statVars, concVars>>
    /\ UNCHANGED <<generation, topology, direction, flow_creation_type,
                   test_types_configuration, protocol_segments, profile_heap,
                   pc, error, profile_reads, mutations, last_mutated>>

\* m_port_config.py:121-123  the holder of port.profile changes the object
\* in place: a segment is appended to its segment list
MutateBoundProfile(i, seg) ==
    /\ pc = "accepted"
    /\ mutations < MaxMutations
    /\ ports_configuration[i].profile # DefaultProfileRef
    /\ profile_heap' = [profile_heap EXCEPT
                            ![ports_configuration[i].profile] = Append(@, seg)]
    /\ mutations' = mutations + 1
    /\ last_mutated' = i
    /\ UNCHANGED <<allocVars, objVars, statVars, concVars>>
    /\ UNCHANGED <<generation, topology, direction, flow_creation_type,
                   test_types_configuration, protocol_segments,
                   ports_configuration, pc, error, profile_reads,
                   resolve_runs>>

MutateSomeBoundProfile ==
    \E i \in Ports : MutateBoundProfile(i, IP)

(***************************************************************************)
(* plugin3918 PortConfiguration.validate_ip (model/port_config.py)         *)
(***************************************************************************)
IPV4 == "IPV4"
ProtocolOption == {ETHERNET, IPV4, IPV6}

NoError3918 == [name |-> "None", family |-> ""]
IpEmpty(family) == [name |-> "IpEmpty", family |-> family]

\* port_config.py:124-139  the exception validate_ip raises for a profile
\* with these header segment types, NoError3918 when it returns.  The
\* second parameter of the validator is subscripted (values["..."]) on
\* every path: when it is the mapping of the fields validated so far the
\* addresses are read, when it is an object without __getitem__ the
\* subscript raises TypeError.  IPV4 is looked for in the whole list before
\* IPV6 is.
validate_ip(segment_types, ipv4_empty, ipv6_empty, values_is_mapping) ==
    LET types == {segment_types[i] : i \in 1 .. Len(segment_types)}
    IN  IF ~values_is_mapping THEN [name |-> "TypeError", family |-> ""]
        ELSE IF IPV4 \in types
             THEN IF ipv4_empty THEN IpEmpty("IPv4") ELSE NoError3918
             ELSE IF IPV6 \in types
                  THEN IF ipv6_empty THEN IpEmpty("IPv6") ELSE NoError3918
                  ELSE [name |-> "NoIpSegment", family |-> ""]

\* PortConfiguration(**data): the validator of the field profile runs after
\* the address fields were validated (port_config.py:106-110)
ConstructPort3918 ==
    /\ port3918.state = "raw"
    /\ LET exc == validate_ip(port3918.segment_types, port3918.ipv4_empty,
                              port3918.ipv6_empty,
                              port3918.values_is_mapping)
       IN  port3918' = [port3918 EXCEPT
                           !.state = IF exc = NoError3918
                                     THEN "constructed" ELSE "rejected",
                           !.error = exc]
    /\ UNCHANGED <<allocVars, cfgVars, statVars, concVars>>
    /\ UNCHANGED <<rate_iteration_options, rate_sweep_options, frame_sizes,
                   test_case>>

\* no port under validation
Port3918Idle ==
    port3918 = [segment_types |-> <<>>, ipv4_empty |-> FALSE,
                ipv6_empty |-> FALSE, values_is_mapping |-> TRUE,
                state |-> "idle", error |-> NoError3918]

(***************************************************************************)
(* RateIterationOptions and RateSweepOptions                               *)
(*   plugin2544/model/m_test_type_config.py:32-45, 58-68                   *)
(*   plugin2889/dataset.py:70-86                                           *)
(* pydantic validates the fields in the order they are declared; the       *)
(* validators of a field see in info.data the fields validated before it.  *)
(***************************************************************************)
\* m_test_type_config.py:35-38  Field(ge=0.0, le=100.0)
PctLimit == 100
WithinPct(v) == 0 <= v /\ v <= PctLimit

\* the percentages a raw field is drawn from, some outside 0 .. 100
RateValues == {-10, PctLimit + 10} \cup {10 * k : k \in 0 .. MaxTens}

\* m_test_type_config.py:35-37  the numeric fields in declaration order
IterationFields ==
    << "initial_value_pct", "maximum_value_pct", "minimum_value_pct" >>

\* info.data when the k-th field is validated: the earlier fields that
\* passed their own validation
IterationInfoData(raw, k) ==
    [f \in {IterationFields[j] :
                j \in {i \in 1 .. (k - 1) :
                           WithinPct(raw[IterationFields[i]])}} |-> raw[f]]

\* m_test_type_config.py:40-45
\* (variant: the value is never compared)
check_if_larger_than_maximun_Never(value, data) == NoError
check_if_larger_than_maximun(value, data) ==
    IF "maximum_value_pct" \in DOMAIN data
    THEN IF value > data["maximum_value_pct"]
         THEN Exc("RateRestriction")
         ELSE NoError
    ELSE NoError

\* what validating the k-th field ends with: the Field constraint first,
\* then the validator of the fields named at m_test_type_config.py:40
IterationFieldError(raw, k) ==
    IF ~WithinPct(raw[IterationFields[k]])
    THEN Exc("ValidationError")
    ELSE IF IterationFields[k] \in {"initial_value_pct", "minimum_value_pct"}
         THEN check_if_larger_than_maximun(raw[IterationFields[k]],
                                           IterationInfoData(raw, k))
         ELSE NoError

\* RateIterationOptions(**raw): an exception of a validator leaves the
\* constructor at once, a failed Field constraint is reported at the end;
\* plugin2889 dataset.py:80-86 declares plain floats and no validator
RateIterationError(gen, raw) ==
    IF gen = "2889" THEN NoError
    ELSE LET errs == [k \in 1 .. Len(IterationFields) |->
                         IterationFieldError(raw, k)]
         IN  IF \E k \in 1 .. Len(errs) : errs[k].name = "RateRestriction"
             THEN Exc("RateRestriction")
             ELSE FirstError(errs)

\* the constructor of RateIterationOptions; the object holds the values
\* the validators returned (m_test_type_config.py:45 returns the value)
ConstructRateIterationOptions ==
    /\ rate_iteration_options.state = "raw"
    /\ LET exc == RateIterationError(rate_iteration_options.generation,
                                     rate_iteration_options.raw)
       IN  rate_iteration_options' =
               [rate_iteration_options EXCEPT
                    !.state = IF exc = NoError
                              THEN "constructed" ELSE "rejected",
                    !.error = exc,
                    !.object = IF exc = NoError
                               THEN <<rate_iteration_options.raw>>
                               ELSE <<>>]
    /\ UNCHANGED <<allocVars, cfgVars, statVars, concVars>>
    /\ UNCHANGED <<port3918, rate_sweep_options, frame_sizes, test_case>>

RateIterationIdle ==
    rate_iteration_options =
        [generation |-> "2544",
         raw |-> [initial_value_pct |-> 0, maximum_value_pct |-> 0,
                  minimum_value_pct |-> 0],
         state |-> "idle", error |-> NoError, object |-> <<>>]

\* m_test_type_config.py:63-68
validate_end_value(value, data) ==
    IF "start_value_pct" \in DOMAIN data
    THEN IF value < data["start_value_pct"]
         THEN Exc("RangeRestriction")
         ELSE NoError
    ELSE NoError

\* RateSweepOptions(**raw): start_value_pct is a plain float, validated
\* before end_value_pct; step_value_pct = Field(gt=0.0) comes last.
\* plugin2889 dataset.py:70-77 NewRateSweepOptions has to_decimal only.
RateSweepError(gen, raw) ==
    IF gen = "2889" THEN NoError
    ELSE LET end_error ==
                 validate_end_value(raw.end_value_pct,
                                    [f \in {"start_value_pct"} |->
                                         raw.start_value_pct])
         IN  IF end_error # NoError THEN end_error
             ELSE IF ~(raw.step_value_pct > 0) THEN Exc("ValidationError")
                  ELSE NoError

ConstructRateSweepOptions ==
    /\ rate_sweep_options.state = "raw"
    /\ LET exc == RateSweepError(rate_sweep_options.generation,
                                 rate_sweep_options.raw)
       IN  rate_sweep_options' =
               [rate_sweep_options EXCEPT
                    !.state = IF exc = NoError
                              THEN "constructed" ELSE "rejected",
                    !.error = exc,
                    !.object = IF exc = NoError
                               THEN <<rate_sweep_options.raw>>
                               ELSE <<>>]
    /\ UNCHANGED <<allocVars, cfgVars, statVars, concVars>>
    /\ UNCHANGED <<port3918, rate_iteration_options, frame_sizes, test_case>>

RateSweepIdle ==
    rate_sweep_options =
        [generation |-> "2544",
         raw |-> [start_value_pct |-> 0, end_value_pct |-> 0,
                  step_value_pct |-> 0],
         state |-> "idle", error |-> NoError, object |-> <<>>]

(***************************************************************************)
(* FrameSizeConfiguration (plugin2889/dataset.py:404-467)                  *)
(***************************************************************************)
MIX == "MIX"
PacketSizeType ==
    {"IETF_DEFAULT", "CUSTOM_SIZES", MIX, "RANGE", "INCREMENTING",
     "BUTTERFLY", "RANDOM"}

\* len(MIXED_DEFAULT_WEIGHTS), the number of reference sizes
NumMixedWeights == 2
\* dataset.py:422  the total the weights have to make
MixWeightsTotal == 100

\* the weights a raw configuration is drawn from (NonNegativeInt)
WeightValues == {0, 40, 50, 60, MixWeightsTotal}

\* sum(self.mixed_sizes_weights)
RECURSIVE SumOf(_)
SumOf(seq) == IF seq = <<>> THEN 0 ELSE Head(seq) + SumOf(Tail(seq))

\* dataset.py:418-423
\* (variant: the sum looked at before the count)
check_mixed_weights_valid_SumFirst(packet_size_type, mixed_sizes_weights) ==
    IF packet_size_type = MIX
    THEN IF SumOf(mixed_sizes_weights) # MixWeightsTotal
         THEN [name |-> "MixWeightsSumError",
               count |-> SumOf(mixed_sizes_weights), group |-> ""]
         ELSE IF Len(mixed_sizes_weights) # NumMixedWeights
              THEN [name |-> "MixWeightsNotEnough",
                    count |-> NumMixedWeights, group |-> ""]
              ELSE NoError
    ELSE NoError
check_mixed_weights_valid(packet_size_type, mixed_sizes_weights) ==
    IF packet_size_type = MIX
    THEN IF Len(mixed_sizes_weights) # NumMixedWeights
         THEN [name |-> "MixWeightsNotEnough",
               count |-> NumMixedWeights, group |-> ""]
         ELSE IF SumOf(mixed_sizes_weights) # MixWeightsTotal
              THEN [name |-> "MixWeightsSumError",
                    count |-> SumOf(mixed_sizes_weights), group |-> ""]
              ELSE NoError
    ELSE NoError

\* dataset.py:465-467  FrameSizeConfiguration.__init__
ConstructFrameSizeConfiguration ==
    /\ frame_sizes.state = "raw"
    /\ LET exc == check_mixed_weights_valid(frame_sizes.packet_size_type,
                                            frame_sizes.mixed_sizes_weights)
       IN  frame_sizes' =
               [frame_sizes EXCEPT
                    !.state = IF exc = NoError
                              THEN "constructed" ELSE "rejected",
                    !.error = exc]
    /\ UNCHANGED <<allocVars, cfgVars, statVars, concVars>>
    /\ UNCHANGED <<port3918, rate_iteration_options, rate_sweep_options,
                   test_case>>

FrameSizesIdle ==
    frame_sizes = [packet_size_type |-> "IETF_DEFAULT",
                   mixed_sizes_weights |-> <<>>,
                   state |-> "idle", error |-> NoError]

(***************************************************************************)
(* Role-counted test types (plugin2889/dataset.py:89-152, 205-279,         *)
(* 327-334)                                                                *)
(***************************************************************************)
SOURCE == "SOURCE"
DESTINATION == "DESTINATION"
\* the roles the ports of a role map are drawn from
PortRoles == {SOURCE, DESTINATION, UNDEFINED}

SrcDestTestTypes ==
    {"congestion_control", "forward_pressure", "max_forwarding_rate",
     "errored_frames_filtering"}

\* dataset.py:209, 218, 226, 279  <<require_src_ports, require_dest_ports>>
\* (variant: one source and one destination for every test type)
RequiredSrcDest_OneEach(test_type) == <<1, 1>>
RequiredSrcDest(test_type) ==
    IF test_type = "congestion_control" THEN <<2, 2>> ELSE <<1, 1>>

\* dataset.py:110-118  PortRoleHandler.role_counter: enabled counts the used
\* ports, by_roles is incremented for every port of the map
role_counter(role_map) ==
    [enabled |-> Cardinality({i \in 1 .. Len(role_map) :
                                  role_map[i].is_used}),
     by_roles |-> [r \in PortRoles |->
                      Cardinality({i \in 1 .. Len(role_map) :
                                      role_map[i].role = r})]]

\* dataset.py:134-143  the destination error is built with
\* require_src_ports
check_src_dest_port_roles(role_map, require_src_ports, require_dest_ports) ==
    IF role_counter(role_map).enabled # require_src_ports + require_dest_ports
    THEN [name |-> "PortRoleEnabledNotEnough",
          count |-> require_src_ports + require_dest_ports, group |-> ""]
    ELSE IF role_counter(role_map).by_roles[SOURCE] # require_src_ports
         THEN [name |-> "PortRoleNotEnough", count |-> require_src_ports,
               group |-> "source"]
         ELSE IF role_counter(role_map).by_roles[DESTINATION]
                     # require_dest_ports
              THEN [name |-> "PortRoleNotEnough",
                    count |-> require_src_ports, group |-> "destination"]
              ELSE NoError

\* dataset.py:327-334  TestSuitesConfiguration.__init__ on one test type:
\* a disabled one is passed over, an enabled one runs check_configuration
CheckTestCase ==
    /\ test_case.state = "raw"
    /\ LET exc == IF ~test_case.enabled THEN NoError
                  ELSE check_src_dest_port_roles(
                           test_case.role_map,
                           RequiredSrcDest(test_case.test_type)[1],
                           RequiredSrcDest(test_case.test_type)[2])
       IN  test_case' =
               [test_case EXCEPT
                    !.state = IF exc = NoError
                              THEN "accepted" ELSE "rejected",
                    !.checked = test_case.enabled,
                    !.error = exc]
    /\ UNCHANGED <<allocVars, cfgVars, statVars, concVars>>
    /\ UNCHANGED <<port3918, rate_iteration_options, rate_sweep_options,
                   frame_sizes>>

TestCaseIdle ==
    test_case = [test_type |-> "congestion_control", enabled |-> FALSE,
                 role_map |-> <<>>, state |-> "idle", checked |-> FALSE,
                 error |-> NoError]

\* no object under validation
InitObjIdle ==
    /\ Port3918Idle
    /\ RateIterationIdle
    /\ RateSweepIdle
    /\ FrameSizesIdle
    /\ TestCaseIdle

(***************************************************************************)
(* StatisticsData.__add__ (plugin2889/dataset.py:614-636)                  *)
(* A snapshot is modelled by one of its numeric fields, tx_packet, and its *)
(* two dictionaries, each entry by its packet count.                       *)
(***************************************************************************)
\* the keys of per_tx_stream and of per_rx_tpld_id that are drawn
StreamKeys == {0, 1}
TpldKeys == {0}

\* dataset.py:632-636  self after self + other: the loop replaces the
\* fields whose value is a Number; a dictionary is not one and stays as it
\* is in self; the method returns self
StatisticsAdd(self, other) ==
    [self EXCEPT !.tx_packet = self.tx_packet + other.tx_packet]

\* the expressions over three snapshots a, b, c that are evaluated
SumExpressions == {"a+b", "b+a", "(a+b)+c", "a+(b+c)"}

\* evaluating one expression: __add__ works on its left operand in place
\* and the value of the expression is that operand
EvalSum(e) ==
    /\ stats.expr = "none"
    /\ LET ab == StatisticsAdd(stats.a, stats.b)
           ba == StatisticsAdd(stats.b, stats.a)
           bc == StatisticsAdd(stats.b, stats.c)
       IN  stats' =
               CASE e = "a+b" ->
                        [stats EXCEPT !.a = ab, !.result = <<ab>>,
                                      !.expr = e]
                 [] e = "b+a" ->
                        [stats EXCEPT !.b = ba, !.result = <<ba>>,
                                      !.expr = e]
                 [] e = "(a+b)+c" ->
                        [stats EXCEPT !.a = StatisticsAdd(ab, stats.c),
                                      !.result =
                                          <<StatisticsAdd(ab, stats.c)>>,
                                      !.expr = e]
                 [] e = "a+(b+c)" ->
                        [stats EXCEPT !.b = bc,
                                      !.a = StatisticsAdd(stats.a, bc),
                                      !.result =
                                          <<StatisticsAdd(stats.a, bc)>>,
                                      !.expr = e]
    /\ UNCHANGED <<allocVars, cfgVars, objVars, concVars>>
    /\ UNCHANGED port_latency

AddSnapshots == \E e \in SumExpressions : EvalSum(e)

\* dataset.py:615-631  StatisticsData(): every counter 0, both maps empty
NewStatisticsData ==
    [tx_packet |-> 0, per_tx_stream |-> <<>>, per_rx_tpld_id |-> <<>>]

StatsIdle ==
    stats = [a |-> NewStatisticsData, b |-> NewStatisticsData,
             c |-> NewStatisticsData,
             given |-> [a |-> NewStatisticsData, b |-> NewStatisticsData,
                        c |-> NewStatisticsData],
             expr |-> "idle", result |-> <<>>]

(***************************************************************************)
(* PortLatency / PortJitter (plugin2889/dataset.py:571-611)                *)
(* A raw sample is a Decimal of nanoseconds, held here as an integer of    *)
(* tenths of a nanosecond; a converted value is a Decimal of microseconds  *)
(* with three decimals, held as an integer of thousandths of a             *)
(* microsecond.                                                            *)
(***************************************************************************)
\* round(x, 3) of a Decimal rounds half to even: n / d to the nearest
\* integer, a tie to the even one
RoundHalfEven(n, d) ==
    LET q == n \div d
        r == n % d
    IN  IF 2 * r < d THEN q
        ELSE IF 2 * r > d THEN q + 1
             ELSE IF q % 2 = 0 THEN q ELSE q + 1

\* dataset.py:580  ~sys.maxsize in thousandths of a microsecond, brought
\* into the range of the samples drawn
FilterFloor == -100000

\* dataset.py:578-582  _pre_process
pre_process(check_value, value) ==
    LET converted == RoundHalfEven(value, 10)
    IN  IF check_value /\ ~(converted > FilterFloor) THEN 0 ELSE converted

Smaller(x, y) == IF x <= y THEN x ELSE y
Larger(x, y) == IF x >= y THEN x ELSE y

\* dataset.py:588-591  the minimum setter: minimum_ after the assignment
\* (variant: a zero value is taken like any other)
minimum_setter_ZeroTaken(check_value, minimum_, value) ==
    IF minimum_ # 0
    THEN Smaller(pre_process(check_value, value), minimum_)
    ELSE pre_process(check_value, value)
minimum_setter(check_value, minimum_, value) ==
    IF pre_process(check_value, value) # 0
    THEN IF minimum_ # 0
         THEN Smaller(pre_process(check_value, value), minimum_)
         ELSE pre_process(check_value, value)
    ELSE minimum_

\* dataset.py:597-599  the maximum setter: maximum_ after the assignment
maximum_setter(check_value, maximum_, value) ==
    Larger(pre_process(check_value, value), maximum_)

\* the raw samples drawn, in tenths of a nanosecond: 0, 0.4 ns, 1.5 ns,
\* 2.5 ns, -2 ns, 250000 ns, 500000 ns and one at the filter's floor
RawSamples ==
    {0, 4, 15, 25, -20, 2500000, 5000000, 10 * FilterFloor}

\* one sample given to both reducers of the object
FeedSample ==
    /\ port_latency.state = "fed"
    /\ Len(port_latency.samples) < MaxSamples
    /\ \E value \in RawSamples :
           port_latency' =
               [port_latency EXCEPT
                    !.minimum_ = minimum_setter(port_latency.check_value_,
                                                port_latency.minimum_,
                                                value),
                    !.maximum_ = maximum_setter(port_latency.check_value_,
                                                port_latency.maximum_,
                                                value),
                    !.samples = Append(port_latency.samples, value)]
    /\ UNCHANGED <<allocVars, cfgVars, objVars, concVars>>
    /\ UNCHANGED stats

\* dataset.py:573-576, 610-611  a new PortLatency (check_value_ True) or
\* PortJitter (check_value_ False)
NewPortLatency(check_value) ==
    [check_value_ |-> check_value, minimum_ |-> 0, maximum_ |-> 0,
     samples |-> <<>>, state |-> "fed"]

LatencyIdle ==
    port_latency = [NewPortLatency(TRUE) EXCEPT !.state = "idle"]

(***************************************************************************)
(* alloc_new_tpld_id called from several threads (dataset.py:370-382).     *)
(* Under CONFIGURATION_SCOPE a call is three statements on the fields of   *)
(* the controller, which holds no lock: line 372 stores current_tid into   *)
(* next_tid, line 373 increments current_tid, line 382 returns next_tid.   *)
(* Each statement is taken as one step; a caller that serializes lets a    *)
(* call start only when no other call is in flight.                        *)
(***************************************************************************)
Threads == 1 .. NumThreads

InFlight(t) == calls[t].pc \in {"assigned", "incremented"}

\* dataset.py:373  self.current_tid += 1
\* (variant: the counter left as it is)
IncrementedTid_Same(tid) == tid
IncrementedTid(tid) == tid + 1

\* dataset.py:371-372
AssignNextTid(t) ==
    /\ tid_allocation_scope = CONFIGURATION_SCOPE
    /\ calls[t].pc = "idle"
    /\ serialized => \A u \in Threads : ~InFlight(u)
    /\ Len(alloc_history) + Cardinality({u \in Threads : InFlight(u)})
           < MaxCalls
    /\ next_tid' = ConfigScopeNextTid
    /\ calls' = [calls EXCEPT ![t].pc = "assigned"]
    /\ UNCHANGED <<tid_allocation_scope, current_rx_port_tid, current_tid,
                   max_tpld_stats, alloc_result, alloc_history, serialized>>
    /\ UNCHANGED <<cfgVars, objVars, statVars>>

\* dataset.py:373
IncrementCurrentTid(t) ==
    /\ calls[t].pc = "assigned"
    /\ current_tid' = IncrementedTid(current_tid)
    /\ calls' = [calls EXCEPT ![t].pc = "incremented"]
    /\ UNCHANGED <<tid_allocation_scope, current_rx_port_tid, next_tid,
                   max_tpld_stats, alloc_result, alloc_history, serialized>>
    /\ UNCHANGED <<cfgVars, objVars, statVars>>

\* dataset.py:380-382  the comparison has no effect (AllocOutcome); the
\* value returned is the field next_tid as it is now
ReturnNextTid(t) ==
    /\ calls[t].pc = "incremented"
    /\ calls' = [calls EXCEPT ![t].pc = "idle", ![t].id = next_tid,
                              ![t].returned = @ + 1]
    /\ alloc_history' = Append(alloc_history,
                               [dst |-> NoPeer, id |-> next_tid,
                                outcome |-> AllocOutcome(FALSE)])
    /\ UNCHANGED <<tid_allocation_scope, current_rx_port_tid, current_tid,
                   next_tid, max_tpld_stats, alloc_result, serialized>>
    /\ UNCHANGED <<cfgVars, objVars, statVars>>

ThreadStep ==
    \E t \in Threads :
        \/ AssignNextTid(t)
        \/ IncrementCurrentTid(t)
        \/ ReturnNextTid(t)

CallsIdle ==
    /\ calls = [t \in Threads |-> [pc |-> "idle", id |-> 0, returned |-> 0]]
    /\ serialized = TRUE

\* nothing of the statistics or of the threads in use
InitRestIdle ==
    /\ StatsIdle
    /\ LatencyIdle
    /\ CallsIdle

(***************************************************************************)
(* Initial states: the raw configurations handed to the constructors       *)
(***************************************************************************)
\* a PortConfiguration as validated by pydantic: m_port_config.py:80-83
\* gives it the default profile and both direction flags set
NewPort(slot, peer, group, profile_id, ip_empty) ==
    [port_slot |-> slot, peer_slot |-> peer, port_group |-> group,
     protocol_segment_profile_id |-> profile_id, ip_empty |-> ip_empty,
     is_tx |-> TRUE, is_rx |-> TRUE, profile |-> DefaultProfileRef]

SegmentStacks == {<<ETHERNET>>, <<ETHERNET, IP>>, <<ETHERNET, IPV6>>}

FirstPass(gen) == IF gen = "2544" THEN Passes2544[1] ELSE "construct"

InitCfgBookkeeping ==
    /\ pc = FirstPass(generation)
    /\ error = NoError
    /\ profile_reads = {}
    /\ resolve_runs = 0
    /\ mutations = 0
    /\ last_mutated = 0

\* the allocator before its first call: dataset.py:364-368
InitAllocIdle ==
    /\ tid_allocation_scope = CONFIGURATION_SCOPE
    /\ current_rx_port_tid = [p \in L23Ports |-> 0]
    /\ current_tid = 0
    /\ next_tid = 0
    /\ max_tpld_stats = [p \in L23Ports |-> MaxCap]
    /\ alloc_result = [source_port |-> NoPeer, destination_port |-> NoPeer,
                       exceed_built |-> FALSE, outcome |-> "None", id |-> 0]
    /\ alloc_history = <<>>

\* no configuration under construction
InitCfgIdle ==
    /\ generation = "2544"
    /\ topology = MESH
    /\ direction = EAST_TO_WEST
    /\ flow_creation_type = STREAM_BASED
    /\ test_types_configuration =
           [throughput_enabled |-> TRUE, other_enabled |-> FALSE,
            result_scope |-> COMMON_RESULT]
    /\ protocol_segments = [id \in ProfileIds |-> 0]
    /\ profile_heap = <<>>
    /\ ports_configuration = <<>>
    /\ pc = "idle"
    /\ error = NoError
    /\ profile_reads = {}
    /\ resolve_runs = 0
    /\ mutations = 0
    /\ last_mutated = 0

\* dataset.py:364-368  a new TPLDIDController: the dataclass defaults, under
\* any policy, with ports of any capability
InitAlloc ==
    /\ tid_allocation_scope \in TidAllocationScope
    /\ current_rx_port_tid = [p \in L23Ports |-> 0]
    /\ current_tid = 0
    /\ next_tid = 0
    /\ max_tpld_stats \in [L23Ports -> 1 .. MaxCap]
    /\ alloc_result = [source_port |-> NoPeer, destination_port |-> NoPeer,
                       exceed_built |-> FALSE, outcome |-> "None", id |-> 0]
    /\ alloc_history = <<>>
    /\ InitCfgIdle
    /\ InitRestIdle
    /\ InitObjIdle

\* PluginModel2544 configurations that differ in topology, direction and
\* the peers and groups of the ports; one layer-2 profile, stream based
InitTopo ==
    /\ InitAllocIdle
    /\ generation = "2544"
    /\ topology \in TestTopology
    /\ direction \in TrafficDirection
    /\ flow_creation_type = STREAM_BASED
    /\ test_types_configuration =
           [throughput_enabled |-> TRUE, other_enabled |-> FALSE,
            result_scope |-> COMMON_RESULT]
    /\ protocol_segments = [id \in ProfileIds |->
                               IF id = "a" THEN TemplateRef(id) ELSE 0]
    /\ profile_heap = [r \in 1 .. Len(ProfileOrder) |->
                          IF ProfileOrder[r] = "a" THEN <<ETHERNET>> ELSE <<>>]
    /\ \E n \in 0 .. MaxPorts :
         \E peers \in [1 .. n -> {NoPeer} \cup (0 .. MaxPorts)],
            groups \in [1 .. n -> PortGroup] :
             ports_configuration =
                 [i \in 1 .. n |->
                     NewPort(i - 1, peers[i], groups[i], "a", FALSE)]
    /\ InitCfgBookkeeping
    /\ InitObjIdle
    /\ InitRestIdle

\* configurations of both generations that differ in the registered
\* profiles, the profile ids and addresses of the ports and the flow
\* creation type
InitBind ==
    /\ InitAllocIdle
    /\ generation \in {"2544", "2889"}
    /\ topology \in (IF generation = "2544" THEN {MESH, BLOCKS} ELSE {MESH})
    /\ direction = EAST_TO_WEST
    /\ flow_creation_type \in
           (IF generation = "2544" THEN FlowCreationType ELSE {STREAM_BASED})
    /\ test_types_configuration =
           [throughput_enabled |-> TRUE, other_enabled |-> FALSE,
            result_scope |-> COMMON_RESULT]
    /\ \E reg \in SUBSET ProfileIds :
         \E stacks \in [reg -> SegmentStacks] :
             /\ protocol_segments =
                    [id \in ProfileIds |->
                        IF id \in reg THEN TemplateRef(id) ELSE 0]
             /\ profile_heap =
                    [r \in 1 .. Len(ProfileOrder) |->
                        IF ProfileOrder[r] \in reg
                        THEN stacks[ProfileOrder[r]] ELSE <<>>]
    /\ \E n \in 0 .. MaxPorts :
         \E ids \in [1 .. n -> ProfileIds], empties \in [1 .. n -> BOOLEAN] :
             ports_configuration =
                 [i \in 1 .. n |->
                     NewPort(i - 1, NoPeer,
                             IF i % 2 = 1 THEN EAST ELSE WEST,
                             ids[i], empties[i])]
    /\ InitCfgBookkeeping
    /\ InitObjIdle
    /\ InitRestIdle

\* the integers below zero a peer_slot is drawn from (m_port_config.py:52
\* declares Optional[int]); -1 is left out because NoPeer stands for None
NegativePeerSlots == {-2}

\* PluginModel2544 pair-topology configurations whose ports carry any slot
\* number and any peer_slot: None, below zero, a slot, or past the end
InitPeer ==
    /\ InitAllocIdle
    /\ generation = "2544"
    /\ topology = PAIRS
    /\ direction = EAST_TO_WEST
    /\ flow_creation_type = STREAM_BASED
    /\ test_types_configuration =
           [throughput_enabled |-> TRUE, other_enabled |-> FALSE,
            result_scope |-> COMMON_RESULT]
    /\ protocol_segments = [id \in ProfileIds |->
                               IF id = "a" THEN TemplateRef(id) ELSE 0]
    /\ profile_heap = [r \in 1 .. Len(ProfileOrder) |->
                          IF ProfileOrder[r] = "a" THEN <<ETHERNET>> ELSE <<>>]
    /\ \E n \in 0 .. MaxPorts :
         \E slots \in [1 .. n -> 0 .. (MaxPorts - 1)],
            peers \in [1 .. n -> {NoPeer} \cup NegativePeerSlots
                                         \cup (0 .. MaxPorts)],
            groups \in [1 .. n -> {EAST, WEST}] :
             ports_configuration =
                 [i \in 1 .. n |->
                     NewPort(slots[i], peers[i], groups[i], "a", FALSE)]
    /\ InitCfgBookkeeping
    /\ InitObjIdle
    /\ InitRestIdle

\* configurations of both generations that differ in topology, flow
\* creation type, enabled test types and result scope, in the stack of
\* profile "b" and in the profile ids and addresses of the ports; every
\* port is its own peer and the groups alternate
InitValid ==
    /\ InitAllocIdle
    /\ generation \in {"2544", "2889"}
    /\ topology \in (IF generation = "2544" THEN TestTopology ELSE {MESH})
    /\ direction = EAST_TO_WEST
    /\ flow_creation_type \in
           (IF generation = "2544" THEN FlowCreationType ELSE {STREAM_BASED})
    /\ \E thr \in BOOLEAN, oth \in BOOLEAN,
          scope \in (IF generation = "2544"
                     THEN {COMMON_RESULT, PER_SOURCE_PORT}
                     ELSE {COMMON_RESULT}) :
           test_types_configuration =
               [throughput_enabled |-> thr, other_enabled |-> oth,
                result_scope |-> scope]
    /\ \E stack \in {<<>>, <<ETHERNET, IP>>, <<ETHERNET, IPV6>>} :
           /\ protocol_segments =
                  [id \in ProfileIds |->
                      IF id = "a" \/ stack # <<>> THEN TemplateRef(id) ELSE 0]
           /\ profile_heap =
                  [r \in 1 .. Len(ProfileOrder) |->
                      IF ProfileOrder[r] = "a" THEN <<ETHERNET>> ELSE stack]
    /\ \E n \in 0 .. MaxPorts :
         \E ids \in [1 .. n -> ProfileIds], empties \in [1 .. n -> BOOLEAN] :
             ports_configuration =
                 [i \in 1 .. n |->
                     NewPort(i - 1, i - 1,
                             IF i % 2 = 1 THEN EAST ELSE WEST,
                             ids[i], empties[i])]
    /\ InitCfgBookkeeping
    /\ InitObjIdle
    /\ InitRestIdle

\* the sequences over a set of at most n elements
SeqUpTo(S, n) == UNION {[1 .. k -> S] : k \in 0 .. n}

\* a plugin3918 port handed to PortConfiguration(**data): any stack of
\* header segments, either address empty or not
InitPort3918 ==
    /\ InitAllocIdle
    /\ InitCfgIdle
    /\ InitRestIdle
    /\ \E types \in SeqUpTo(ProtocolOption, MaxSegments) \ {<<>>},
          v4 \in BOOLEAN, v6 \in BOOLEAN, mapping \in BOOLEAN :
           port3918 = [segment_types |-> types, ipv4_empty |-> v4,
                       ipv6_empty |-> v6, values_is_mapping |-> mapping,
                       state |-> "raw", error |-> NoError3918]
    /\ RateIterationIdle
    /\ RateSweepIdle
    /\ FrameSizesIdle
    /\ TestCaseIdle

\* raw rate iteration options or raw rate sweep options of either generation
InitRate ==
    /\ InitAllocIdle
    /\ InitCfgIdle
    /\ InitRestIdle
    /\ Port3918Idle
    /\ FrameSizesIdle
    /\ TestCaseIdle
    /\ \/ /\ \E gen \in {"2544", "2889"},
                 i \in RateValues, mx \in RateValues, mn \in RateValues :
                  rate_iteration_options =
                      [generation |-> gen,
                       raw |-> [initial_value_pct |-> i,
                                maximum_value_pct |-> mx,
                                minimum_value_pct |-> mn],
                       state |-> "raw", error |-> NoError, object |-> <<>>]
          /\ RateSweepIdle
       \/ /\ \E gen \in {"2544", "2889"},
                 st \in RateValues, en \in RateValues, step \in {0, 10} :
                  rate_sweep_options =
                      [generation |-> gen,
                       raw |-> [start_value_pct |-> st, end_value_pct |-> en,
                                step_value_pct |-> step],
                       state |-> "raw", error |-> NoError, object |-> <<>>]
          /\ RateIterationIdle

\* a raw FrameSizeConfiguration of any sizing mode with any weights
InitFrameSizes ==
    /\ InitAllocIdle
    /\ InitCfgIdle
    /\ InitRestIdle
    /\ Port3918Idle
    /\ RateIterationIdle
    /\ RateSweepIdle
    /\ TestCaseIdle
    /\ \E type \in PacketSizeType,
          weights \in SeqUpTo(WeightValues, MaxWeights) :
           frame_sizes = [packet_size_type |-> type,
                          mixed_sizes_weights |-> weights,
                          state |-> "raw", error |-> NoError]

\* a source/destination test type, enabled or not, with any role map
InitRoles ==
    /\ InitAllocIdle
    /\ InitCfgIdle
    /\ InitRestIdle
    /\ Port3918Idle
    /\ RateIterationIdle
    /\ RateSweepIdle
    /\ FrameSizesIdle
    /\ \E type \in SrcDestTestTypes, enabled \in BOOLEAN,
          role_map \in SeqUpTo([is_used : BOOLEAN, role : PortRoles],
                               MaxRolePorts) :
           test_case = [test_type |-> type, enabled |-> enabled,
                        role_map |-> role_map, state |-> "raw",
                        checked |-> FALSE, error |-> NoError]

\* a snapshot: tx_packet and the packet counts of the entries of the maps
Snapshots ==
    {[tx_packet |-> n, per_tx_stream |-> tx, per_rx_tpld_id |-> rx] :
        n \in 0 .. MaxStat,
        tx \in UNION {[K -> {1}] : K \in SUBSET StreamKeys},
        rx \in UNION {[K -> {1, 2}] : K \in SUBSET TpldKeys}}

\* three snapshots about to be added
InitStats ==
    /\ InitAllocIdle
    /\ InitCfgIdle
    /\ InitObjIdle
    /\ LatencyIdle
    /\ CallsIdle
    /\ \E a \in Snapshots, b \in Snapshots, c \in Snapshots :
           stats = [a |-> a, b |-> b, c |-> c,
                    given |-> [a |-> a, b |-> b, c |-> c],
                    expr |-> "none", result |-> <<>>]

\* a new PortLatency or PortJitter
InitLatency ==
    /\ InitAllocIdle
    /\ InitCfgIdle
    /\ InitObjIdle
    /\ StatsIdle
    /\ CallsIdle
    /\ \E check_value \in BOOLEAN :
           port_latency = NewPortLatency(check_value)

\* a new TPLDIDController of configuration scope and threads about to call
\* it, serialized by their caller or not
InitThreads ==
    /\ InitAllocIdle
    /\ InitCfgIdle
    /\ InitObjIdle
    /\ StatsIdle
    /\ LatencyIdle
    /\ calls = [t \in Threads |-> [pc |-> "idle", id |-> 0, returned |-> 0]]
    /\ serialized \in BOOLEAN

(***************************************************************************)
(* Specifications                                                          *)
(***************************************************************************)
\* the allocator, calls serialized
NextAlloc == AllocCall
SpecAlloc == InitAlloc /\ [][NextAlloc]_vars

\* PluginModel2544.__init__ pass by pass
Construct2544 ==
    \/ check_ip_properties
    \/ check_port_count
    \/ check_modifier_mode_and_segments
    \/ check_port_group
    \/ check_test_type_enable
    \/ check_result_scope
    \/ SetPortsRxTxTypePass
    \/ check_port_groups_and_peers
    \/ set_profile

NextTopo == Construct2544 \/ RerunSetPortsRxTxType
SpecTopo == InitTopo /\ [][NextTopo]_vars

NextPeer == Construct2544
SpecPeer == InitPeer /\ [][NextPeer]_vars

NextValid == Construct2544 \/ Construct2889
SpecValid == InitValid /\ [][NextValid]_vars

NextPort3918 == ConstructPort3918
SpecPort3918 == InitPort3918 /\ [][NextPort3918]_vars

NextRate == ConstructRateIterationOptions \/ ConstructRateSweepOptions
SpecRate == InitRate /\ [][NextRate]_vars

NextFrameSizes == ConstructFrameSizeConfiguration
SpecFrameSizes == InitFrameSizes /\ [][NextFrameSizes]_vars

NextRoles == CheckTestCase
SpecRoles == InitRoles /\ [][NextRoles]_vars

NextStats == AddSnapshots
SpecStats == InitStats /\ [][NextStats]_vars

NextLatency == FeedSample
SpecLatency == InitLatency /\ [][NextLatency]_vars

NextThreads == ThreadStep
SpecThreads == InitThreads /\ [][NextThreads]_vars

NextBind == Construct2544 \/ Construct2889 \/ MutateSomeBoundProfile
SpecBind == InitBind /\ [][NextBind]_vars

(***************************************************************************)
(* Claims on the allocator                                                 *)
(***************************************************************************)
Returned(i) == alloc_history[i].outcome = "return"

\* C1: under CONFIGURATION_SCOPE the k-th serialized call returns k-1,
\* whatever its source and destination ports: one counter is shared by all
\* destinations, no id is returned twice and none is skipped.
C1_ConfigScopeSequential ==
    tid_allocation_scope = CONFIGURATION_SCOPE =>
        /\ \A k \in 1 .. Len(alloc_history) :
               Returned(k) /\ alloc_history[k].id = k - 1
        /\ current_tid = Len(alloc_history)

\* C1 witness: two calls to different destinations returned 0 then 1.
C1_Witness ==
    /\ tid_allocation_scope = CONFIGURATION_SCOPE
    /\ Len(alloc_history) >= 2
    /\ alloc_history[1].dst # alloc_history[2].dst
    /\ alloc_history[1].id = 0
    /\ alloc_history[2].id = 1

\* number of calls among the first k-1 whose destination is d
EarlierCallsTo(d, k) ==
    Cardinality({i \in 1 .. (k - 1) : alloc_history[i].dst = d})

\* C2: under RX_PORT_SCOPE the n-th call for destination D returns n-1,
\* counting only the earlier calls for D; the counter of every destination
\* equals the number of calls made for it (calls for other destinations
\* leave it alone).
C2_RxPortScopePerDestination ==
    tid_allocation_scope = RX_PORT_SCOPE =>
        /\ \A k \in 1 .. Len(alloc_history) :
               /\ Returned(k)
               /\ alloc_history[k].id = EarlierCallsTo(alloc_history[k].dst, k)
        /\ \A d \in L23Ports :
               current_rx_port_tid[d] =
                   EarlierCallsTo(d, Len(alloc_history) + 1)

\* C2 witness: destinations interleave D, E, D and the second call for D
\* returns 1 while the first call for E returned 0.
C2_Witness ==
    /\ tid_allocation_scope = RX_PORT_SCOPE
    /\ Len(alloc_history) >= 3
    /\ alloc_history[1].dst = alloc_history[3].dst
    /\ alloc_history[2].dst # alloc_history[1].dst
    /\ alloc_history[1].id = 0
    /\ alloc_history[2].id = 0
    /\ alloc_history[3].id = 1

\* C3: under every policy an id is returned only if it does not exceed the
\* destination port's max_tpld_stats; otherwise the call ends in TPLDIDExceed.
C3_ReturnedIdWithinCapability ==
    alloc_result.outcome = "return" =>
        alloc_result.id <= max_tpld_stats[alloc_result.destination_port]

(***************************************************************************)
(* Claims on topology direction resolution                                 *)
(***************************************************************************)
IsLoopPort(p) == p.port_slot = p.peer_slot

\* C4: before set_ports_rx_tx_type every port has is_tx = is_rx = true; after
\* it, a non-loop east port has RX cleared and TX kept under EAST_TO_WEST
\* and TX cleared and RX kept under WEST_TO_EAST, a non-loop west port the
\* mirror, and a loop port (port_slot = peer_slot) has both flags true.
C4_DirectionResolutionTable ==
    \A i \in Ports :
        LET p == ports_configuration[i] IN
        IF resolve_runs = 0 THEN p.is_tx /\ p.is_rx
        ELSE /\ IsLoopPort(p) => p.is_tx /\ p.is_rx
             /\ (~IsLoopPort(p) /\ direction = EAST_TO_WEST
                   /\ p.port_group = EAST) => (p.is_tx /\ ~p.is_rx)
             /\ (~IsLoopPort(p) /\ direction = EAST_TO_WEST
                   /\ p.port_group = WEST) => (~p.is_tx /\ p.is_rx)
             /\ (~IsLoopPort(p) /\ direction = WEST_TO_EAST
                   /\ p.port_group = EAST) => (~p.is_tx /\ p.is_rx)
             /\ (~IsLoopPort(p) /\ direction = WEST_TO_EAST
                   /\ p.port_group = WEST) => (p.is_tx /\ ~p.is_rx)

\* C4 witness: after resolution under EAST_TO_WEST a non-loop east port
\* transmits only, beside a loop port that kept both flags.
C4_Witness ==
    /\ resolve_runs >= 1
    /\ direction = EAST_TO_WEST
    /\ \E i \in Ports, j \in Ports :
           /\ ~IsLoopPort(ports_configuration[i])
           /\ ports_configuration[i].port_group = EAST
           /\ ports_configuration[i].is_tx
           /\ ~ports_configuration[i].is_rx
           /\ IsLoopPort(ports_configuration[j])
           /\ ports_configuration[j].port_group = WEST
           /\ ports_configuration[j].is_tx
           /\ ports_configuration[j].is_rx

\* C5: a run of set_ports_rx_tx_type that follows an earlier run, with the
\* groups, peers and direction unchanged, leaves the is_tx and is_rx flag of
\* every port as the earlier run left them.
C5_DirectionResolutionIdempotent ==
    [][(resolve_runs >= 1 /\ resolve_runs' = resolve_runs + 1) =>
          \A i \in Ports :
              /\ ports_configuration'[i].is_tx = ports_configuration[i].is_tx
              /\ ports_configuration'[i].is_rx = ports_configuration[i].is_rx
      ]_vars

\* C5 witness: the resolution has run twice on a configuration in which it
\* cleared a flag.
C5_Witness ==
    /\ resolve_runs >= 2
    /\ \E i \in Ports : ~ports_configuration[i].is_rx
    /\ \E i \in Ports : ~ports_configuration[i].is_tx

(***************************************************************************)
(* Claims on profile binding                                               *)
(***************************************************************************)
\* C6: a mutation of the profile bound to one port changes neither the
\* profile bound to any other port (also one with the same profile id) nor
\* any template held in protocol_segments.
C6_BoundProfilesIndependent ==
    [][(mutations' = mutations + 1) =>
          /\ \A q \in Ports \ {last_mutated'} :
                 profile_heap'[ports_configuration'[q].profile] =
                     profile_heap[ports_configuration[q].profile]
          /\ \A id \in ProfileIds :
                 Registered(id) =>
                     profile_heap'[protocol_segments'[id]] =
                         profile_heap[protocol_segments[id]]
      ]_vars

\* C6 witness: two ports bound from the same template, one of them mutated:
\* its profile differs from the other port's, which still equals the template.
C6_Witness ==
    /\ mutations >= 1
    /\ \E p \in Ports, q \in Ports :
           /\ p # q
           /\ last_mutated = p
           /\ ports_configuration[p].protocol_segment_profile_id =
                  ports_configuration[q].protocol_segment_profile_id
           /\ ProfileSegments(ports_configuration[p].profile) #
                  ProfileSegments(ports_configuration[q].profile)
           /\ ProfileSegments(ports_configuration[q].profile) =
                  profile_heap[protocol_segments[
                      ports_configuration[q].protocol_segment_profile_id]]

\* the first violation the constructor meets is a port whose profile id is
\* not registered
MissingProfileIsFirstViolation ==
    IF generation = "2889"
    THEN /\ Len(ports_configuration) >= 2
         /\ \E i \in Ports :
                ~Registered(ports_configuration[i].protocol_segment_profile_id)
    ELSE \E i \in Ports :
           /\ ~Registered(ports_configuration[i].protocol_segment_profile_id)
           /\ \A j \in 1 .. (i - 1) :
                  LET id == ports_configuration[j].protocol_segment_profile_id
                  IN  /\ Registered(id)
                      /\ ~(/\ is_l3(protocol_version(
                                  profile_heap[protocol_segments[id]]))
                           /\ ports_configuration[j].ip_empty)

\* C7: in both generations a configuration with a port whose profile id is
\* not registered is rejected, with the named missing-profile condition
\* (PSPMissing / ProfileMissing) when that is the first violation; in an
\* accepted configuration every port is bound to a copy of the registered
\* profile it names, never to the default profile.
C7_MissingProfileNamedCondition ==
    /\ pc = "accepted" =>
           \A i \in Ports :
               /\ Registered(ports_configuration[i].protocol_segment_profile_id)
               /\ ports_configuration[i].profile # DefaultProfileRef
    /\ (pc = "rejected" /\ MissingProfileIsFirstViolation) =>
           error.name \in {"PSPMissing", "ProfileMissing"}

\* C8: profile binding runs after direction resolution, and every validation
\* pass that reads port.profile reads a bound profile, never the default one.
C8_ProfileBoundBeforeRead ==
    /\ \A r \in profile_reads : r.bound
    /\ (generation = "2544" /\
          \E i \in Ports : ports_configuration[i].profile # DefaultProfileRef)
           => resolve_runs >= 1

\* a modifier-based configuration with a port that names a layer-3 profile
ModifierWithL3Port ==
    /\ generation = "2544"
    /\ ~is_stream_based(flow_creation_type)
    /\ \E i \in Ports :
           LET id == ports_configuration[i].protocol_segment_profile_id
           IN  /\ Registered(id)
               /\ is_l3(protocol_version(profile_heap[protocol_segments[id]]))

\* C9: a modifier-based configuration in which a port names a layer-3
\* profile is never accepted, and no pass after the modifier check gets to
\* run on it: it is rejected with ModifierBasedNotSupportL3 or with the
\* error of a pass that runs before that check.
C9_ModifierL3Rejected ==
    (ModifierWithL3Port /\ pc \in {"accepted", "rejected"}) =>
        /\ pc = "rejected"
        /\ error.name \in {"PSPMissing", "IPAddressMissing",
                           "PortConfigNotEnough", "ModifierBasedNotSupportL3"}

(***************************************************************************)
(* Claims on group balance                                                 *)
(***************************************************************************)
\* the tallies as the claim states them: a port counts 1 on its own side,
\* and a loop port under a pair topology 1 more on the opposite side
SideCount(own, opposite) ==
    Cardinality({i \in Ports : ports_configuration[i].port_group = own})
    + (IF topology = PAIRS
       THEN Cardinality({i \in Ports :
                /\ ports_configuration[i].port_group = opposite
                /\ IsLoopPort(ports_configuration[i])})
       ELSE 0)
EastTally == SideCount(EAST, WEST)
WestTally == SideCount(WEST, EAST)

PassedGroupCheck == pc \in {"set_profile", "accepted"}

\* C10: a non-mesh configuration gets past check_port_groups_and_peers only
\* with an east tally and a west tally of at least 1; PortGroupError is
\* raised only for a non-mesh topology and names a group whose tally is 0;
\* a configuration with an empty group that reaches the group check without
\* a peer error is rejected with PortGroupError; a mesh topology is never
\* rejected with PortGroupError.
C10_GroupBalance ==
    /\ (topology # MESH /\ PassedGroupCheck) =>
           (EastTally >= 1 /\ WestTally >= 1)
    /\ error.name = "PortGroupError" =>
           /\ topology # MESH
           /\ pc = "rejected"
           /\ error.group = "East" => EastTally = 0
           /\ error.group = "West" => (WestTally = 0 /\ EastTally >= 1)
           /\ error.group \in {"East", "West"}
    /\ (topology # MESH /\ pc = "rejected"
          /\ (EastTally = 0 \/ WestTally = 0)
          /\ error.name \notin {"PortConfigNotEnough", "PortPeerNeeded",
                                "PortPeerInconsistent"}) =>
           error.name = "PortGroupError"

\* C10 witness: a pair topology whose only west-side count comes from a loop
\* port is accepted, so the loop port was counted on both sides.
C10_Witness ==
    /\ topology = PAIRS
    /\ pc = "accepted"
    /\ \A i \in Ports : ports_configuration[i].port_group = EAST
    /\ WestTally >= 1

\* C10 second case reached: a block topology with no west port is rejected
\* with PortGroupError naming West.
C10_RejectedReached ==
    /\ topology = BLOCKS
    /\ error = [name |-> "PortGroupError", count |-> 0, group |-> "West"]

(***************************************************************************)
(* Claims on peers, port count and the order of the checks                 *)
(***************************************************************************)
\* the peer_slot of p is None or no index 0 .. len-1 of the port list
PeerMissingOrOutOfRange(p) ==
    \/ p.peer_slot = NoPeer
    \/ p.peer_slot \notin 0 .. (Len(ports_configuration) - 1)

\* p designates a port of the configuration and the two designate each other
PeerMutual(p) ==
    /\ ~PeerMissingOrOutOfRange(p)
    /\ LET q == ports_configuration[p.peer_slot + 1]
       IN  q.peer_slot = p.port_slot /\ p.peer_slot = q.port_slot

\* the first port of the list whose peer is not as required
FirstPeerOffender ==
    CHOOSE i \in Ports :
        /\ ~PeerMutual(ports_configuration[i])
        /\ \A j \in 1 .. (i - 1) : PeerMutual(ports_configuration[j])

\* C11: in a pair-topology configuration that got past the peer check every
\* port has a peer_slot that designates a port of the configuration, and
\* the two ports designate each other; a configuration rejected by the
\* peer check is rejected with PortPeerNeeded when the first offending
\* port has a missing or out-of-range peer_slot and with
\* PortPeerInconsistent when its peer relation is not mutual.
C11_PeerConsistency ==
    (generation = "2544" /\ is_pair_topology(topology)) =>
        /\ pc \in {"set_profile", "accepted"} =>
               \A i \in Ports : PeerMutual(ports_configuration[i])
        /\ (/\ pc = "rejected"
            /\ error.name # "PortConfigNotEnough"
            /\ \E i \in Ports : ~PeerMutual(ports_configuration[i])) =>
               error = IF PeerMissingOrOutOfRange(
                             ports_configuration[FirstPeerOffender])
                       THEN Exc("PortPeerNeeded")
                       ELSE Exc("PortPeerInconsistent")

\* the number of ports the claim requires of the configuration
RequiredPortCount ==
    IF generation = "2544" /\ topology = PAIRS THEN 1 ELSE 2

TooFewPorts == Len(ports_configuration) < RequiredPortCount

\* the configuration did not get past the port count check
StoppedAtPortCount ==
    \/ pc \in {"check_ip_properties", "check_port_count", "construct"}
    \/ pc = "rejected"

C12_PairOfOneAccepted ==
    /\ generation = "2544"
    /\ topology = PAIRS
    /\ Len(ports_configuration) = 1
    /\ pc = "accepted"

\* some port has a layer-3 profile and an empty address
HasL3PortWithEmptyIp ==
    \E i \in Ports :
        LET port == ports_configuration[i]
        IN  /\ Registered(port.protocol_segment_profile_id)
            /\ is_l3(protocol_version(ProfileSegments(
                   protocol_segments[port.protocol_segment_profile_id])))
            /\ port.ip_empty

\* C13: of a rejected configuration only the first failure is reported, and
\* the port count is looked at before the addresses, the addresses before
\* the modifier conflict: a configuration with too few ports and a layer-3
\* port with an empty address is rejected with PortConfigNotEnough, and
\* one with enough ports and such a port with IPAddressMissing or the
\* missing-profile condition of an earlier port.
C13_ValidationOrder ==
    (generation = "2544" /\ pc = "rejected" /\ HasL3PortWithEmptyIp) =>
        IF TooFewPorts
        THEN error.name = "PortConfigNotEnough"
        ELSE error.name \in {"IPAddressMissing", "PSPMissing"}

(***************************************************************************)
(* Claims on the result scope                                              *)
(***************************************************************************)
\* the throughput test is enabled with a per-source-port result scope in a
\* configuration whose flows are created by modifiers
PerPortResultWithModifiers ==
    /\ generation = "2544"
    /\ test_types_configuration.throughput_enabled
    /\ test_types_configuration.result_scope = PER_SOURCE_PORT
    /\ flow_creation_type = MODIFIER_BASED

\* the errors of the validators of ports_configuration, the field
\* validated before test_types_configuration
PortsValidatorErrors ==
    {"PSPMissing", "IPAddressMissing", "PortConfigNotEnough",
     "ModifierBasedNotSupportL3", "PortGroupNeeded"}

\* C15: a configuration with the throughput test enabled, result scope
\* PER_SOURCE_PORT and modifier-based flow creation never gets past the
\* validators: it is rejected with ModifierBasedNotSupportPerPortResult
\* unless a validator of the ports rejected it first, and that error is
\* raised for no other configuration.
C15_PerPortResultNeedsStreams ==
    /\ PerPortResultWithModifiers =>
           pc \notin {"set_ports_rx_tx_type", "check_port_groups_and_peers",
                      "set_profile", "accepted"}
    /\ (/\ PerPortResultWithModifiers
        /\ pc = "rejected"
        /\ error.name \notin PortsValidatorErrors) =>
           error = Exc("ModifierBasedNotSupportPerPortResult")
    /\ error.name = "ModifierBasedNotSupportPerPortResult" =>
           PerPortResultWithModifiers /\ pc = "rejected"

\* such a configuration, with valid ports, rejected for its result scope
C15_Witness ==
    /\ PerPortResultWithModifiers
    /\ Len(ports_configuration) >= 2
    /\ pc = "rejected"
    /\ error = Exc("ModifierBasedNotSupportPerPortResult")

(***************************************************************************)
(* Claims on the address of a port with an IP profile                      *)
(***************************************************************************)
\* the positions of the IP segments of the profile
IpPositions ==
    {i \in 1 .. Len(port3918.segment_types) :
         port3918.segment_types[i] \in {IPV4, IPV6}}

\* the family of the first IP segment of the profile
FirstIpFamily ==
    IF port3918.segment_types[CHOOSE i \in IpPositions :
                                  \A j \in IpPositions : i <= j] = IPV4
    THEN "IPv4" ELSE "IPv6"

FamilyAddressEmpty ==
    IF FirstIpFamily = "IPv4" THEN port3918.ipv4_empty
    ELSE port3918.ipv6_empty

\* C14: a validated port whose profile contains an IP segment (its
\* validator being able to read the address fields) is rejected
\* with IpEmpty for the family of the first IP segment of the profile
\* exactly when the address of that family is empty, also when a segment
\* of the other family follows.
C14_AddressOfProfileFamily ==
    (/\ port3918.state \in {"constructed", "rejected"}
     /\ port3918.values_is_mapping
     /\ IpPositions # {}) =>
        IF FamilyAddressEmpty
        THEN port3918.state = "rejected"
             /\ port3918.error = IpEmpty(FirstIpFamily)
        ELSE port3918.state = "constructed"

(***************************************************************************)
(* Claims on rate iteration and rate sweep options                         *)
(***************************************************************************)
IterationValidated ==
    rate_iteration_options.state \in {"constructed", "rejected"}

\* every raw percentage lies within 0 .. 100
IterationRawWithinPct ==
    \A k \in 1 .. Len(IterationFields) :
        WithinPct(rate_iteration_options.raw[IterationFields[k]])

\* C16: no constructed RateIterationOptions has initial above maximum; a
\* construction with initial above maximum (say 50 and 40) is rejected
\* with the rate-restriction error.
C16_InitialWithinMaximum ==
    /\ rate_iteration_options.state = "constructed" =>
           rate_iteration_options.object[1].initial_value_pct
               <= rate_iteration_options.object[1].maximum_value_pct
    /\ (/\ IterationValidated
        /\ IterationRawWithinPct
        /\ rate_iteration_options.raw.initial_value_pct
               > rate_iteration_options.raw.maximum_value_pct) =>
           /\ rate_iteration_options.state = "rejected"
           /\ rate_iteration_options.error = Exc("RateRestriction")

\* C17 as claimed: every constructed RateIterationOptions has minimum at
\* most initial; a construction with minimum above initial, both at most
\* maximum, is rejected.
C17_MinimumWithinInitial ==
    /\ rate_iteration_options.state = "constructed" =>
           rate_iteration_options.object[1].minimum_value_pct
               <= rate_iteration_options.object[1].initial_value_pct
    /\ (/\ IterationValidated
        /\ IterationRawWithinPct
        /\ rate_iteration_options.raw.minimum_value_pct
               > rate_iteration_options.raw.initial_value_pct) =>
           rate_iteration_options.state = "rejected"

\* C17 as the code has it: every constructed RateIterationOptions of the
\* 2544 generation has minimum at most maximum, a construction with minimum
\* above maximum being rejected with the rate-restriction error; minimum is
\* not compared with initial, and a constructed object holds the values it
\* was given, none of them clamped.
C17_MinimumWithinMaximum ==
    /\ (/\ rate_iteration_options.generation = "2544"
        /\ rate_iteration_options.state = "constructed") =>
           rate_iteration_options.object[1].minimum_value_pct
               <= rate_iteration_options.object[1].maximum_value_pct
    /\ (/\ rate_iteration_options.generation = "2544"
        /\ IterationValidated
        /\ IterationRawWithinPct
        /\ rate_iteration_options.raw.minimum_value_pct
               > rate_iteration_options.raw.maximum_value_pct) =>
           /\ rate_iteration_options.state = "rejected"
           /\ rate_iteration_options.error = Exc("RateRestriction")
    /\ (/\ rate_iteration_options.generation = "2544"
        /\ IterationValidated
        /\ IterationRawWithinPct
        /\ rate_iteration_options.raw.minimum_value_pct
               <= rate_iteration_options.raw.maximum_value_pct
        /\ rate_iteration_options.raw.initial_value_pct
               <= rate_iteration_options.raw.maximum_value_pct) =>
           rate_iteration_options.state = "constructed"
    /\ rate_iteration_options.state = "constructed" =>
           rate_iteration_options.object
               = <<rate_iteration_options.raw>>

\* minimum above initial, both at most maximum, and constructed
C17_Witness ==
    /\ rate_iteration_options.generation = "2544"
    /\ rate_iteration_options.state = "constructed"
    /\ rate_iteration_options.raw.minimum_value_pct
           > rate_iteration_options.raw.initial_value_pct
    /\ rate_iteration_options.raw.initial_value_pct
           <= rate_iteration_options.raw.maximum_value_pct

\* minimum above maximum, rejected
C17_RejectedReached ==
    /\ rate_iteration_options.generation = "2544"
    /\ rate_iteration_options.raw.minimum_value_pct
           > rate_iteration_options.raw.maximum_value_pct
    /\ rate_iteration_options.error = Exc("RateRestriction")

SweepValidated == rate_sweep_options.state \in {"constructed", "rejected"}

\* C18: every constructed rate sweep options object, of either generation,
\* has start at most end; a construction with end below start is rejected
\* with the range-restriction error.
C18_SweepStartWithinEnd ==
    /\ rate_sweep_options.state = "constructed" =>
           rate_sweep_options.object[1].start_value_pct
               <= rate_sweep_options.object[1].end_value_pct
    /\ (/\ SweepValidated
        /\ rate_sweep_options.raw.end_value_pct
               < rate_sweep_options.raw.start_value_pct) =>
           /\ rate_sweep_options.state = "rejected"
           /\ rate_sweep_options.error = Exc("RangeRestriction")

\* the same of the 2544 generation alone
SweepStartWithinEnd2544 ==
    rate_sweep_options.generation = "2544" => C18_SweepStartWithinEnd

(***************************************************************************)
(* Claims on the mixed frame size weights                                   *)
(***************************************************************************)
FrameSizesValidated == frame_sizes.state \in {"constructed", "rejected"}

\* C19: a FrameSizeConfiguration in MIX mode is constructed only if it has
\* as many weights as there are reference sizes and the weights sum to
\* 100; a wrong count is rejected with MixWeightsNotEnough, the count being
\* looked at first, and a wrong sum with MixWeightsSumError; in any other
\* mode the weights never cause a rejection.
C19_MixedWeights ==
    FrameSizesValidated =>
        IF frame_sizes.packet_size_type = MIX
        THEN IF Len(frame_sizes.mixed_sizes_weights) # NumMixedWeights
             THEN /\ frame_sizes.state = "rejected"
                  /\ frame_sizes.error.name = "MixWeightsNotEnough"
                  /\ frame_sizes.error.count = NumMixedWeights
             ELSE IF SumOf(frame_sizes.mixed_sizes_weights) # MixWeightsTotal
                  THEN /\ frame_sizes.state = "rejected"
                       /\ frame_sizes.error.name = "MixWeightsSumError"
                  ELSE frame_sizes.state = "constructed"
        ELSE frame_sizes.state = "constructed"

\* a MIX configuration with the wrong number of weights, which also do not
\* sum to 100, rejected for the number
C19_Witness ==
    /\ frame_sizes.packet_size_type = MIX
    /\ Len(frame_sizes.mixed_sizes_weights) # NumMixedWeights
    /\ SumOf(frame_sizes.mixed_sizes_weights) # MixWeightsTotal
    /\ frame_sizes.state = "rejected"
    /\ frame_sizes.error.name = "MixWeightsNotEnough"

\* a MIX configuration that was constructed
C19_MixConstructed ==
    /\ frame_sizes.packet_size_type = MIX
    /\ frame_sizes.state = "constructed"

\* a MIX configuration rejected for the sum of its weights
C19_SumRejected ==
    /\ frame_sizes.packet_size_type = MIX
    /\ frame_sizes.error.name = "MixWeightsSumError"

\* a configuration of another mode constructed with weights that MIX
\* would reject
C19_OtherModeConstructed ==
    /\ frame_sizes.packet_size_type # MIX
    /\ Len(frame_sizes.mixed_sizes_weights) # NumMixedWeights
    /\ frame_sizes.state = "constructed"

(***************************************************************************)
(* Claims on the role-counted test types                                   *)
(***************************************************************************)
TestCaseValidated == test_case.state \in {"accepted", "rejected"}

\* the numbers of source and destination ports the claim gives per test type
ClaimedSources ==
    IF test_case.test_type = "congestion_control" THEN 2 ELSE 1
ClaimedDestinations ==
    IF test_case.test_type = "congestion_control" THEN 2 ELSE 1

UsedPorts ==
    Cardinality({i \in 1 .. Len(test_case.role_map) :
                     test_case.role_map[i].is_used})

\* role_counter.read(role) of the role map under validation
RoleCount(role) == role_counter(test_case.role_map).by_roles[role]

\* C20: an enabled source/destination test type requiring s source and d
\* destination ports is accepted only if its used ports number s + d, the
\* SOURCE count read from the role counter is s and the DESTINATION count
\* is d; the three are looked at in that order, the first that fails
\* giving PortRoleEnabledNotEnough(s + d), PortRoleNotEnough('source', s)
\* or PortRoleNotEnough('destination', d); a disabled test type is not
\* checked and is accepted.
C20_RoleCountedValidation ==
    TestCaseValidated =>
        IF ~test_case.enabled
        THEN test_case.state = "accepted" /\ ~test_case.checked
        ELSE IF UsedPorts # ClaimedSources + ClaimedDestinations
             THEN /\ test_case.state = "rejected"
                  /\ test_case.error =
                         [name |-> "PortRoleEnabledNotEnough",
                          count |-> ClaimedSources + ClaimedDestinations,
                          group |-> ""]
             ELSE IF RoleCount(SOURCE) # ClaimedSources
                  THEN /\ test_case.state = "rejected"
                       /\ test_case.error =
                              [name |-> "PortRoleNotEnough",
                               count |-> ClaimedSources,
                               group |-> "source"]
                  ELSE IF RoleCount(DESTINATION) # ClaimedDestinations
                       THEN /\ test_case.state = "rejected"
                            /\ test_case.error =
                                   [name |-> "PortRoleNotEnough",
                                    count |-> ClaimedDestinations,
                                    group |-> "destination"]
                       ELSE test_case.state = "accepted"

\* congestion control with four used ports, two of them sources, rejected
\* for its destinations
C20_Witness ==
    /\ test_case.test_type = "congestion_control"
    /\ test_case.enabled
    /\ UsedPorts = 4
    /\ RoleCount(SOURCE) = 2
    /\ test_case.state = "rejected"
    /\ test_case.error.group = "destination"

\* congestion control accepted
C20_CongestionControlAccepted ==
    /\ test_case.test_type = "congestion_control"
    /\ test_case.enabled
    /\ test_case.state = "accepted"

\* a disabled test type whose role map an enabled one would be rejected for
C20_DisabledPassedOver ==
    /\ ~test_case.enabled
    /\ UsedPorts = 0
    /\ test_case.state = "accepted"

(***************************************************************************)
(* Claims on the statistics                                                *)
(***************************************************************************)
\* two maps added entry by entry, a key missing on one side counting 0
MapSum(f, g) ==
    [k \in DOMAIN f \cup DOMAIN g |->
        (IF k \in DOMAIN f THEN f[k] ELSE 0)
            + (IF k \in DOMAIN g THEN g[k] ELSE 0)]

\* the sum of two snapshots as claimed: every counter and both maps added
ClaimedSum(x, y) ==
    [tx_packet |-> x.tx_packet + y.tx_packet,
     per_tx_stream |-> MapSum(x.per_tx_stream, y.per_tx_stream),
     per_rx_tpld_id |-> MapSum(x.per_rx_tpld_id, y.per_rx_tpld_id)]

\* C21: the sum of two snapshots has every counter and both maps added
\* field by field, and the sum is commutative and associative: a+b and
\* b+a, and (a+b)+c and a+(b+c), have equal counters and equal maps.
C21_SnapshotSum ==
    stats.expr \in SumExpressions =>
        LET a == stats.given.a
            b == stats.given.b
            c == stats.given.c
        IN  /\ stats.expr = "a+b" =>
                   /\ stats.result[1] = ClaimedSum(a, b)
                   /\ stats.result[1] = StatisticsAdd(b, a)
            /\ stats.expr = "b+a" =>
                   /\ stats.result[1] = ClaimedSum(b, a)
                   /\ stats.result[1] = StatisticsAdd(a, b)
            /\ stats.expr = "(a+b)+c" =>
                   /\ stats.result[1] = ClaimedSum(ClaimedSum(a, b), c)
                   /\ stats.result[1]
                          = StatisticsAdd(a, StatisticsAdd(b, c))
            /\ stats.expr = "a+(b+c)" =>
                   /\ stats.result[1] = ClaimedSum(a, ClaimedSum(b, c))
                   /\ stats.result[1]
                          = StatisticsAdd(StatisticsAdd(a, b), c)

\* the same of the counters alone
SnapshotSumOfCounters ==
    stats.expr \in SumExpressions =>
        stats.result[1].tx_packet
            = IF stats.expr \in {"a+b", "b+a"}
              THEN stats.given.a.tx_packet + stats.given.b.tx_packet
              ELSE stats.given.a.tx_packet + stats.given.b.tx_packet
                       + stats.given.c.tx_packet

\* the samples fed so far, each as _pre_process hands it to the reducers
ConvertedSamples ==
    {pre_process(port_latency.check_value_, port_latency.samples[i]) :
         i \in 1 .. Len(port_latency.samples)}

SetMin(S) == CHOOSE x \in S : \A y \in S : x <= y
SetMax(S) == CHOOSE x \in S : \A y \in S : x >= y

\* C22: after any sequence of raw samples given to both reducers, minimum
\* is the smallest non-zero converted sample (0 while there is none),
\* maximum is the largest of 0 and all converted samples, 500000 ns then
\* 250000 ns give minimum 250.000 and maximum 500.000, and minimum is at
\* most maximum once a sample was fed.
C22_MinimumAndMaximum ==
    port_latency.state = "fed" =>
        /\ port_latency.minimum_
               = IF ConvertedSamples \ {0} = {} THEN 0
                 ELSE SetMin(ConvertedSamples \ {0})
        /\ port_latency.maximum_ = SetMax(ConvertedSamples \cup {0})
        /\ port_latency.samples = <<5000000, 2500000>> =>
               /\ port_latency.minimum_ = 250000
               /\ port_latency.maximum_ = 500000
        /\ port_latency.samples # <<>> =>
               port_latency.minimum_ <= port_latency.maximum_

\* 500000 ns then 250000 ns were fed to a PortLatency
C22_Witness ==
    /\ port_latency.state = "fed"
    /\ port_latency.check_value_
    /\ port_latency.samples = <<5000000, 2500000>>
    /\ port_latency.minimum_ = 250000
    /\ port_latency.maximum_ = 500000

\* a sample converted to zero came after a non-zero one and left the
\* minimum where it was
ZeroSampleAfterMinimum ==
    /\ port_latency.state = "fed"
    /\ Len(port_latency.samples) = 2
    /\ pre_process(port_latency.check_value_, port_latency.samples[1]) # 0
    /\ pre_process(port_latency.check_value_, port_latency.samples[2]) = 0
    /\ port_latency.minimum_ # 0

(***************************************************************************)
(* Claims on concurrent allocation                                         *)
(***************************************************************************)
\* the ids returned so far by the calls of the threads
ReturnedIds ==
    {alloc_history[i].id : i \in 1 .. Len(alloc_history)}

\* two calls returned the same id
DuplicateId ==
    \E i, j \in 1 .. Len(alloc_history) :
        i # j /\ alloc_history[i].id = alloc_history[j].id

\* every call has returned and an id the counter went past was returned
\* by none of them
SkippedId ==
    /\ \A t \in Threads : ~InFlight(t)
    /\ \E id \in 0 .. current_tid - 1 : id \notin ReturnedIds

\* C23: the allocator holds no lock; when configuration-scope calls are
\* serialized no state is reachable in which two calls returned the same
\* id or an id was skipped (the k-th call returns k - 1), while calls whose
\* statements interleave reach such a state (C23_Witness).
C23_SerializedCallsDistinct ==
    (serialized /\ tid_allocation_scope = CONFIGURATION_SCOPE) =>
        /\ ~DuplicateId
        /\ ~SkippedId
        /\ \A i \in 1 .. Len(alloc_history) : alloc_history[i].id = i - 1

\* two calls that interleaved returned the same id, and the id before it
\* was returned by neither
C23_Witness ==
    /\ ~serialized
    /\ \E t, u \in Threads :
           /\ t # u
           /\ calls[t].returned = 1
           /\ calls[u].returned = 1
           /\ calls[t].id = calls[u].id
    /\ DuplicateId
    /\ SkippedId

\* serialized calls have returned two ids
SerializedCallsReturned ==
    /\ serialized
    /\ Len(alloc_history) >= 2

(***************************************************************************)
(* Claims on the port groups of a non-mesh configuration                   *)
(***************************************************************************)
\* some port of the configuration has no port group
HasUndefinedGroupPort ==
    \E i \in Ports : ports_configuration[i].port_group = UNDEFINED

\* C24: in every accepted configuration with a non-mesh topology no port
\* has port_group UNDEFINED; a non-mesh configuration with such a port is
\* rejected, also when the other ports fill the east and the west group.
C24_NoUndefinedGroupAccepted ==
    (/\ generation = "2544"
     /\ ~is_mesh_topology(topology)
     /\ pc = "accepted") => ~HasUndefinedGroupPort

\* no construction ends in PortGroupNeeded
PortGroupNeededNeverRaised == error.name # "PortGroupNeeded"

(***************************************************************************)
(* Claims on the role counter                                              *)
(***************************************************************************)
IsUsedEntry(port) == port.is_used

\* the role map without its entries that are not used
UsedEntries(role_map) == SelectSeq(role_map, IsUsedEntry)

\* the number of used entries of the role map under validation with a role
UsedRoleCount(role) ==
    Cardinality({i \in 1 .. Len(test_case.role_map) :
                     /\ test_case.role_map[i].is_used
                     /\ test_case.role_map[i].role = role})

\* C25: role_counter counts only used ports: enabled is the number of used
\* entries and read(role) the number of used entries with that role, and
\* entries that are not used never change whether the role-count
\* validation of a test type accepts or rejects.
C25_OnlyUsedPortsCounted ==
    test_case.checked =>
        /\ role_counter(test_case.role_map).enabled = UsedPorts
        /\ \A role \in PortRoles : RoleCount(role) = UsedRoleCount(role)
        /\ (test_case.state = "accepted")
               <=> (check_src_dest_port_roles(
                        UsedEntries(test_case.role_map),
                        RequiredSrcDest(test_case.test_type)[1],
                        RequiredSrcDest(test_case.test_type)[2]) = NoError)

\* enabled is the number of used entries
EnabledCountsUsedPorts ==
    role_counter(test_case.role_map).enabled = UsedPorts

\* a role map accepted without its unused entries is rejected with them
RejectedForUnusedEntry ==
    /\ test_case.enabled
    /\ test_case.state = "rejected"
    /\ test_case.error.name = "PortRoleNotEnough"
    /\ check_src_dest_port_roles(
           UsedEntries(test_case.role_map),
           RequiredSrcDest(test_case.test_type)[1],
           RequiredSrcDest(test_case.test_type)[2]) = NoError

====
